---- MODULE Spec2Model ----
(***************************************************************************)
(* Model of the OCR pipeline of nt_manual_ingest (thaiOcrSimple.js, kept   *)
(* as src/unnamed/part_002): the concurrency limiter, the rasterization    *)
(* stage, the per-page enhancement / recognition tasks, text assembly and  *)
(* workspace cleanup.                                                      *)
(*                                                                         *)
(* The specifications of that module:                                      *)
(*   LimSpec  the limiter of createConcurrencyLimiter alone, driven by     *)
(*            callers that arrive, succeed and fail in any pattern;        *)
(*   Spec     one run of _runOcrProcessingPipeline, including the tasks    *)
(*            that are still in flight after the run has settled, with a   *)
(*            recognition client whose credentials are usable or not;      *)
(*   GetSpec  one call of getContent: the text branch, or the pipeline     *)
(*            with the arguments getContent gives it;                      *)
(*   NormSpec _normalizeExtractedText alone, on every short text;          *)
(*   ListSpec the listing of page images, filtered and sorted;             *)
(*   LiveSpec a pipeline run in which no external call fails, with         *)
(*            fairness;                                                    *)
(*   LimLiveSpec the limiter with callers that call again, with fairness;  *)
(*   MultiSpec the recognition stage of several getContent calls that run  *)
(*            in one process.                                              *)
(* Two more specifications model the code around it:                       *)
(*   CliSpec  the command line tool (src/unnamed/part_000), run more than  *)
(*            once on the same file or directory;                          *)
(*   DbSpec   the chapters of the act / regulation store                   *)
(*            (src/lawsStorageSimple.js).                                  *)
(*                                                                         *)
(* Assumptions on the environment (not decided by the repository's code):  *)
(*   - fsp.rm(session, {recursive, force}) removes the directory and does  *)
(*     not fail;                                                           *)
(*   - a child process or file write never re-creates a removed workspace  *)
(*     directory, so file operations under a removed workspace fail;       *)
(*   - a successful "mutool draw -o page-k.png" leaves exactly that file;  *)
(*   - between two runs of the command line tool nothing else creates or   *)
(*     removes files in the input directory;                               *)
(*   - the store is opened on an empty database file, and only its own     *)
(*     functions write to it.                                              *)
(***************************************************************************)
EXTENDS Naturals, Integers, Sequences, FiniteSets, TLC

\* ------------------------------------------------------------------ bounds
MaxPages == 3      \* largest page count the page counter reports
MaxLimit == 2      \* largest value of a configured concurrency limit
MaxCallers == 4    \* callers of the stand-alone limiter
GetMaxPages == 2   \* largest page count of a document passed to getContent
MaxChunks == 2     \* chunks delivered by the stream passed to getContent
MaxListed == 11     \* largest number of page files in a listed directory
MaxTextLen == 7    \* longest text passed to _normalizeExtractedText alone
MaxSessions == 2   \* getContent calls running at the same time
SessionMaxPages == 2 \* largest page count of a document of one such call
MaxDirents == 2    \* entries of the directory given to the command line tool
MaxRuns == 2       \* runs of the command line tool on the same input
MaxIds == 2        \* act ids, and regulation ids, offered to the store
MaxChapters == 2   \* chapter ids offered to the store

Pages == 1..MaxPages
Callers == 1..MaxCallers

\* ------------------------------------------------------------------ state
VARIABLES
    \* --- stand-alone limiter (LimSpec)
    lim,          \* the limiter closure: max, active, queue, pending wake-ups
    cst,          \* per caller: idle / waiting / woken / running / resolved / rejected
    arrived,      \* callers in the order of their calls
    threw,        \* callers whose function threw or rejected
    \* --- pipeline (Spec)
    pc,           \* position of _runOcrProcessingPipeline
    workspace,    \* the session directory exists
    pagesDir,     \* page numbers k with a file pages/page-k.png
    enhancedDir,  \* page numbers k with a file ocr_best/page-k-ocr-best.png
    pageCount,    \* value returned by _getPdfPageCount (0: not yet known)
    pageImages,   \* the sorted listing returned by _convertPdfToPngImages
    convLim, enhLim, ocrLim,   \* the three limiters
    conv, enh, ocr,            \* per page: state of its three tasks
    signal,       \* enhancedPromises[i] is resolved
    pageResults,  \* pageResults[i], Unset while never assigned
    docText,      \* doc.text the service returned for page i (Unset before)
    doneOrder,    \* pages in the order in which their recognition completed
    includeMarkers, \* the includeMarkers argument (read when the text is assembled)
    caught,       \* the error the pending rejection / catch clause holds
    outcome,      \* how the run settled: NoOutcome, a result envelope or a thrown error
    client,       \* documentAiClient after the module's initializer ran
    counted,      \* <<r>> once the page-count command printed r (<<>> before)
    \* --- getContent (GetSpec)
    gpc,          \* position of getContent
    fileName,     \* the fileName argument
    input,        \* the chunks the stream argument delivers
    rest,         \* the chunks not yet delivered
    chunks,       \* the array `chunks`
    gresult,      \* the bytes getContent returned
    \* --- _normalizeExtractedText alone (NormSpec)
    nin,          \* the argument t
    nout,         \* the returned text (Unset before the call)
    \* --- the listing of _convertPdfToPngImages alone (ListSpec)
    listing,      \* the file names readdir returns, in readdir's order
    files,        \* the paths returned (Unset before)
    \* --- several getContent calls in one process (MultiSpec)
    googleOcrLimit, \* CONCURRENCY_GOOGLE_OCR, read once when the module loads
    ocrLimiters,  \* per session: the ocrLimiter its pipeline created
    ocrTasks,     \* per session: per page, the state of the recognition task
    \* --- the command line tool (CliSpec)
    argMode,      \* what process.argv[2] names: a PDF file or a directory
    dirents,      \* the entries of the directory (the one PDF in file mode)
    txt,          \* per entry: the content of the .txt beside its PDF
    cpc,          \* position of the tool
    cur,          \* index of the entry the loop is at
    runNo,        \* number of the current run of the tool
    ocrCalls,     \* per entry: how often getContent was invoked
    buffer,       \* extractedTextBuffer, the bytes getContent returned
    log,          \* the console lines written, as (run, entry, message)
    \* --- the act / regulation store (DbSpec)
    acts,         \* primary keys of table Acts
    regulations,  \* primary keys of table Regulations
    chapters,     \* table Chapters: per chapter_id a row or NoRow
    dbOut         \* the last call: its arguments, the row it met, its result

limVars == <<lim, cst, arrived, threw>>
pipeVars == <<pc, workspace, pagesDir, enhancedDir, pageCount, pageImages,
              convLim, enhLim, ocrLim, conv, enh, ocr, signal, pageResults,
              docText, doneOrder, includeMarkers, caught, outcome, client, counted>>
getVars == <<gpc, fileName, input, rest, chunks, gresult>>
normVars == <<nin, nout>>
listVars == <<listing, files>>
multiVars == <<googleOcrLimit, ocrLimiters, ocrTasks>>
cliVars == <<argMode, dirents, txt, cpc, cur, runNo, ocrCalls, buffer, log>>
dbVars == <<acts, regulations, chapters, dbOut>>
extraVars == <<multiVars, cliVars, dbVars>>
auxVars == <<getVars, normVars, listVars, extraVars>>
vars == <<lim, cst, arrived, threw, pc, workspace, pagesDir, enhancedDir, pageCount,
          pageImages, convLim, enhLim, ocrLim, conv, enh, ocr, signal,
          pageResults, docText, doneOrder, includeMarkers, caught, outcome,
          client, counted, gpc, fileName, input, rest, chunks, gresult, nin, nout,
          listing, files, googleOcrLimit, ocrLimiters, ocrTasks, argMode, dirents,
          txt, cpc, cur, runNo, ocrCalls, buffer, log, acts, regulations, chapters, dbOut>>

\* ------------------------------------------------------------------- text
\* A text is a sequence of characters; the characters that matter are named.
CR == "CR"
LF == "LF"
SP == "SP"
TAB == "TAB"
IsBlank(ch) == ch \in {SP, TAB}
\* the characters String.prototype.trim removes (those of the model's alphabet)
IsSpace(ch) == ch \in {SP, TAB, LF, CR}

\* .replace(/\r\n/g, "\n"), scanning from position i
RECURSIVE ReplaceCrLf(_, _)
ReplaceCrLf(s, i) ==
    IF i > Len(s) THEN <<>>
    ELSE IF s[i] = CR /\ i < Len(s) /\ s[i + 1] = LF
         THEN <<LF>> \o ReplaceCrLf(s, i + 2)
         ELSE <<s[i]>> \o ReplaceCrLf(s, i + 1)

\* position of the first character at or after i that is no space or tab
\* (Len(s) + 1 when there is none)
RECURSIVE SkipBlanks(_, _)
SkipBlanks(s, i) ==
    IF i > Len(s) \/ ~IsBlank(s[i]) THEN i ELSE SkipBlanks(s, i + 1)

\* .replace(/[ \t]+\n/g, "\n"): a run of spaces and tabs that ends at a
\* newline is deleted
RECURSIVE StripBeforeNewline(_, _)
StripBeforeNewline(s, i) ==
    IF i > Len(s) THEN <<>>
    ELSE LET k == SkipBlanks(s, i) IN
         IF IsBlank(s[i]) /\ k <= Len(s) /\ s[k] = LF
         THEN StripBeforeNewline(s, k)
         ELSE <<s[i]>> \o StripBeforeNewline(s, i + 1)

\* mutant: a run of three or more newlines is replaced by one newline
RECURSIVE CollapseToOne(_, _, _)
CollapseToOne(s, i, run) ==
    IF i > Len(s) THEN <<>>
    ELSE IF s[i] = LF
         THEN LET j == CHOOSE k \in i..(Len(s) + 1) :
                          /\ \A m \in i..(k - 1) : s[m] = LF
                          /\ (k > Len(s) \/ s[k] # LF)
              IN  (IF j - i >= 3 THEN <<LF>> ELSE SubSeq(s, i, j - 1))
                  \o CollapseToOne(s, j, 0)
         ELSE <<s[i]>> \o CollapseToOne(s, i + 1, 0)

\* .replace(/\n{3,}/g, "\n\n"); run is the number of newlines just before i
RECURSIVE CollapseNewlines(_, _, _)
CollapseNewlines(s, i, run) ==
    IF i > Len(s) THEN <<>>
    ELSE IF s[i] = LF
         THEN (IF run < 2 THEN <<LF>> ELSE <<>>) \o CollapseNewlines(s, i + 1, run + 1)
         ELSE <<s[i]>> \o CollapseNewlines(s, i + 1, 0)

RECURSIVE TrimStart(_)
TrimStart(s) == IF s # <<>> /\ IsSpace(Head(s)) THEN TrimStart(Tail(s)) ELSE s
RECURSIVE TrimEnd(_)
TrimEnd(s) ==
    IF s # <<>> /\ IsSpace(s[Len(s)]) THEN TrimEnd(SubSeq(s, 1, Len(s) - 1)) ELSE s
\* String.prototype.trim
Trim(s) == TrimEnd(TrimStart(s))

\* a text field that is absent from the service's answer (undefined or null)
NoText == <<"null">>

\* mutant: the value is used as it is
KeepMissing(t) == t

\* `t || ""`: an absent text (and the empty string) gives the empty string
OrEmpty(t) == IF t = NoText THEN <<>> ELSE t

\* _normalizeExtractedText
NormalizeExtractedText(t) ==
    Trim(CollapseNewlines(StripBeforeNewline(ReplaceCrLf(OrEmpty(t), 1), 1), 1, 0))

\* the texts the recognition service returns in the model
RawTexts == { <<"a", SP, CR, LF>>, <<"b">>, <<>>, NoText }

\* ---------------------------------------------------------------- limiter
\* createConcurrencyLimiter(max): `let active = 0; const queue = []`.
\* woken holds the callers whose promise was resolved by queue.shift()() and
\* whose continuation has not run yet (the microtask queue, in order).
NewLimiter(max) == [max |-> max, active |-> 0, queue |-> <<>>, woken |-> <<>>]

\* `active >= max`, the condition of the while loop
MustWait(l) == l.active >= l.max

\* one evaluation of `while (active >= max) await new Promise(r => queue.push(r)); active++`
\* by caller c: either c suspends at the back of the queue or it takes a permit
Enter(l, c) ==
    IF MustWait(l) THEN [l EXCEPT !.queue = Append(@, c)]
                   ELSE [l EXCEPT !.active = @ + 1]

\* mutant: a woken caller takes the permit without testing the condition again
\* (`if` in place of `while`)
ResumeNoRecheck(l) == [l EXCEPT !.woken = Tail(@), !.active = @ + 1]

\* the continuation of the oldest woken caller: the loop condition is tested again
Resume(l) == Enter([l EXCEPT !.woken = Tail(@)], Head(l.woken))

\* the finally block: `active--; if (queue.length) queue.shift()();`
Exit(l) ==
    IF l.queue # <<>>
    THEN [l EXCEPT !.active = @ - 1, !.queue = Tail(@), !.woken = Append(@, Head(l.queue))]
    ELSE [l EXCEPT !.active = @ - 1]

\* mutant: the permit is released only on the success path (no finally)
NoRelease(l) == l

\* mutant: the permit is given back but no waiting caller is woken
ReleaseWithoutWake(l) == [l EXCEPT !.active = @ - 1]

\* fn() resolved: `return await fn()` leaves through finally
OnReturn(l) == Exit(l)

\* fn() threw or rejected: the exception leaves through the same finally
OnThrow(l) == Exit(l)

\* mutant: the limiter catches the exception of fn and resolves
Swallowed(fnThrew) == "resolved"

\* how the promise returned by limiter(fn) settles: `return await fn()` sits in
\* try/finally without a catch clause, so an exception of fn passes through
Settled(fnThrew) == IF fnThrew THEN "rejected" ELSE "resolved"

SeqToSet(s) == {s[k] : k \in 1..Len(s)}

\* --------------------------------------------------------------- pipeline
NoError == [stage |-> "none", page |-> 0]
Err(stage, page) == [stage |-> stage, page |-> page]

\* an array slot that was never assigned (it concatenates as "undefined")
Unset == <<"undefined">>

\* what the message of an Error names: a stage and a page (0: no page)
Names(stage, page) == [stage |-> stage, page |-> page]
NoMessage == Names("none", 0)

NoOutcome == [kind |-> "none", success |-> FALSE, text |-> <<>>, pages |-> 0,
              error |-> NoError, message |-> NoMessage]

\* the messages the error raised by a failing call can carry. execp prefixes
\* its description, `Convert page k` or `Get PDF page count`; nothing wraps
\* the errors of the other calls: a file-system error carries the path of the
\* file (page-k.png, page-k-ocr-best.png), an error of sharp or of
\* processDocument carries neither the stage nor the page.
Messages(e) ==
    CASE e.stage = "convert" -> {Names("convert", e.page)}
      [] e.stage = "pagecount" -> {Names("pagecount", 0)}
      [] e.stage \in {"enhance", "recognize"} -> {Names("none", e.page), Names("none", 0)}
      [] OTHER -> {NoMessage}

\* what parseInt makes of the output of `mutool show ... trailer/Root/Pages/Count`:
\* NaN for empty or non-numeric output, otherwise the integer printed
NaN == [nan |-> TRUE, n |-> 0]
Num(k) == [nan |-> FALSE, n |-> k]
PageCountOutputs == {NaN} \cup {Num(k) : k \in -1..MaxPages}

\* mutant: only `n < 1` is tested, and NaN < 1 is false
MissesNaN(r) == ~r.nan /\ r.n < 1

\* `!n || n < 1` of _getPdfPageCount
InvalidPageCount(r) == r.nan \/ r.n = 0 \/ r.n < 1

\* n synchronous calls limiter(fn), for k = from..n in order
RECURSIVE EnterAll(_, _, _)
EnterAll(l, from, n) ==
    IF from > n THEN l ELSE EnterAll(Enter(l, from), from + 1, n)

\* task states right after the n calls: the admitted ones run, the others wait
Launched(l, n, admitted) ==
    [i \in Pages |-> IF i > n THEN "none"
                     ELSE IF i \in SeqToSet(l.queue) THEN "queued"
                     ELSE admitted]

\* mutant: a task whose call failed goes back in line to be called again
Requeued == "queued"

\* state of a task whose call failed: `return await fn()` rejects and the
\* rejection leaves the limiter; fn is not called a second time
Rejected == "failed"

\* task states after task i left the limiter (l -> l2) in state how:
\* the caller shifted from the queue, if any, is now woken
Left(tasks, l, l2, i, how) ==
    [k \in Pages |->
        IF k = i THEN how
        ELSE IF Len(l2.woken) > Len(l.woken) /\ k = l2.woken[Len(l2.woken)] THEN "woken"
        ELSE tasks[k]]

\* task states after the oldest woken caller ran its continuation (l -> l2)
Resumed(tasks, l, l2, admitted) ==
    [tasks EXCEPT ![Head(l.woken)] = IF l2.active > l.active THEN admitted ELSE "queued"]

\* mutant: the listing misses the last page file
ListingDropsLast(S) ==
    IF S = {} THEN <<>> ELSE [k \in 1..(Cardinality(S) - 1) |-> k]

\* .sort((a, b) => a.match(/\d+/)[0] - b.match(/\d+/)[0]) of the directory
\* listing: the page numbers of the files in ascending numeric order
RECURSIVE SortByPageNumber(_)
SortByPageNumber(S) ==
    IF S = {} THEN <<>>
    ELSE LET m == CHOOSE x \in S : \A y \in S : x <= y
         IN <<m>> \o SortByPageNumber(S \ {m})

\* mutant: the marker carries the loop index i instead of i + 1
MarkerFromZero(k) == <<"=====", SP, "PAGE", SP, ToString(k - 1), SP, "=====">>

\* "===== PAGE k =====" of the marker line
MarkerLine(k) == <<"=====", SP, "PAGE", SP, ToString(k), SP, "=====">>

\* mutant: without markers the pages are joined by one line break
RECURSIVE JoinedByNewline(_, _, _, _)
JoinedByNewline(results, n, markers, i) ==
    IF i > n THEN <<>>
    ELSE (IF markers THEN <<LF, LF>> \o MarkerLine(i) \o <<LF, LF>> \o results[i]
          ELSE (IF i > 1 THEN <<LF>> ELSE <<>>) \o results[i])
         \o JoinedByNewline(results, n, markers, i + 1)

\* the loop of lines 250-255 from index i (1-based) on
RECURSIVE AssembleFrom(_, _, _, _)
AssembleFrom(results, n, markers, i) ==
    IF i > n THEN <<>>
    ELSE (IF markers THEN <<LF, LF>> \o MarkerLine(i) \o <<LF, LF>> \o results[i]
          ELSE (IF i > 1 THEN <<LF, LF>> ELSE <<>>) \o results[i])
         \o AssembleFrom(results, n, markers, i + 1)

\* mutant: the result of a recognition task is appended in completion order
\* (pageResults.push) instead of being stored at the page's index
PushResult(results, i, t) ==
    LET free == {k \in Pages : results[k] = Unset}
    IN  IF free = {} THEN results
        ELSE [results EXCEPT ![CHOOSE k \in free : \A j \in free : k <= j] = t]

\* mutant: the slot is indexed by pageNum (i + 1) instead of i, so that the
\* text of a page lands in the slot of the next page
StoreByPageNum(results, i, t) ==
    IF i + 1 \in Pages THEN [results EXCEPT ![i + 1] = t] ELSE results

\* `pageResults[i] = _normalizeExtractedText(doc.text || "")`
StoreResult(results, i, t) == [results EXCEPT ![i] = t]

\* mutant: the catch clause rethrows without removing the workspace
CatchKeepsWorkspace(w) == w

\* `await mrm(session, { recursive: true, force: true })` of the catch clause:
\* whether the session directory exists afterwards
CatchCleanup(w) == FALSE

\* mutant: the catch clause wraps the error
ThrowWrapped(e) == Err("pipeline", 0)

\* `throw e` of the catch clause: the error the caller receives
Rethrow(e) == e

\* mutant: enhancement signals before it has run (the promise is resolved up front)
NoSignalNeeded(sig, i) == TRUE

\* mutant: recognition waits for the enhancement of every page (a barrier
\* between the two phases)
AllSignalsReady(sig, i) == \A k \in 1..Len(pageImages) : sig[k]

\* `await enhancedPromises[i].promise` lets the recognition task continue
SignalReady(sig, i) == sig[i]

PipeInit ==
    /\ workspace = FALSE
    /\ pagesDir = {}
    /\ enhancedDir = {}
    /\ pageCount = 0
    /\ pageImages = <<>>
    /\ convLim = NewLimiter(1)
    /\ enhLim = NewLimiter(1)
    /\ ocrLim = NewLimiter(1)
    /\ conv = [i \in Pages |-> "none"]
    /\ enh = [i \in Pages |-> "none"]
    /\ ocr = [i \in Pages |-> "none"]
    /\ signal = [i \in Pages |-> FALSE]
    /\ pageResults = [i \in Pages |-> Unset]
    /\ docText = [i \in Pages |-> Unset]
    /\ doneOrder = <<>>
    /\ includeMarkers = FALSE
    /\ caught = NoError
    /\ outcome = NoOutcome
    /\ counted = <<>>

LimIdle ==
    /\ lim = NewLimiter(1)
    /\ cst = [c \in Callers |-> "idle"]
    /\ arrived = <<>>
    /\ threw = {}

\* getContent has not been called
GetIdle ==
    /\ gpc = "idle"
    /\ fileName = <<>>
    /\ input = <<>>
    /\ rest = <<>>
    /\ chunks = <<>>
    /\ gresult = <<>>

\* _normalizeExtractedText has not been called
NormIdle ==
    /\ nin = <<>>
    /\ nout = Unset

\* the directory of page images has not been listed
ListIdle ==
    /\ listing = <<>>
    /\ files = Unset

\* getContent has not been called by anyone
MultiIdle ==
    /\ googleOcrLimit = 0
    /\ ocrLimiters = <<>>
    /\ ocrTasks = <<>>

\* the command line tool has not been started
CliIdle ==
    /\ argMode = ""
    /\ dirents = <<>>
    /\ txt = <<>>
    /\ cpc = "idle"
    /\ cur = 0
    /\ runNo = 0
    /\ ocrCalls = <<>>
    /\ buffer = ""
    /\ log = {}

\* the store has not been opened
DbIdle ==
    /\ acts = {}
    /\ regulations = {}
    /\ chapters = <<>>
    /\ dbOut = <<>>

ExtraIdle == MultiIdle /\ CliIdle /\ DbIdle

\* what the initializer of lines 75-80 leaves in documentAiClient: a client with
\* usable credentials, a client built on a key file that is no valid key, or
\* undefined (the key file is missing and the initializer threw)
Clients == {"ok", "invalid", "undefined"}

Init ==
    /\ PipeInit /\ pc = "start"
    /\ client \in Clients
    /\ LimIdle /\ GetIdle /\ NormIdle /\ ListIdle /\ ExtraIdle

\* mutant: the stage is awaited with Promise.race: it is over when the first
\* task has resolved
FirstResolved(tasks, n) == \E i \in 1..n : tasks[i] = "done"

\* mutant: the last task is left out of the array that is awaited
AllButLast(tasks, n) == \A i \in 1..(n - 1) : tasks[i] = "done"

\* `await Promise.all([...])` resolves: each of the n tasks has resolved
AllResolved(tasks, n) == \A i \in 1..n : tasks[i] = "done"

\* mutant: the rejection of a task is swallowed (the tasks are awaited with
\* Promise.allSettled)
FailureIgnored(at, e) == UNCHANGED <<pc, caught>>

\* a rejection reaches the pending await of the pipeline: control moves to the
\* catch clause with that error; a later rejection of the same Promise.all is ignored
Fails(at, e) ==
    IF pc = at THEN pc' = "catch" /\ caught' = e
    ELSE UNCHANGED <<pc, caught>>

\* lines 198-200: the session directories and input.pdf are written
CreateWorkspace ==
    /\ pc = "start"
    /\ pc' = "counting"
    /\ workspace' = TRUE
    /\ UNCHANGED <<pagesDir, enhancedDir, pageCount, pageImages, convLim, enhLim,
                   ocrLim, conv, enh, ocr, signal, pageResults, docText, doneOrder, includeMarkers, caught,
                   outcome, limVars, client, counted, auxVars>>

\* one of mmkdir / mwrite fails; the directory may or may not exist by then
CreateWorkspaceFail ==
    /\ pc = "start"
    /\ pc' = "catch"
    /\ caught' = Err("workspace", 0)
    /\ workspace' \in BOOLEAN
    /\ UNCHANGED <<pagesDir, enhancedDir, pageCount, pageImages, convLim, enhLim,
                   ocrLim, conv, enh, ocr, signal, pageResults, docText, doneOrder, includeMarkers,
                   outcome, limVars, client, counted, auxVars>>

\* _getPdfPageCount returns n; lines 120-133 create the limiter and call it
\* once per page, synchronously
PageCountOk(r, max) ==
    /\ pc = "counting"
    /\ ~InvalidPageCount(r)
    /\ pageCount' = r.n
    /\ counted' = <<r>>
    /\ convLim' = EnterAll(NewLimiter(max), 1, r.n)
    /\ conv' = Launched(convLim', r.n, "running")
    /\ pc' = "converting"
    /\ UNCHANGED <<workspace, pagesDir, enhancedDir, pageImages, enhLim, ocrLim,
                   enh, ocr, signal, pageResults, docText, doneOrder, includeMarkers, caught, outcome, limVars, client, auxVars>>

\* the page-count command fails, or its output is no count >= 1
PageCountFail(execFailed, r) ==
    /\ pc = "counting"
    /\ execFailed \/ InvalidPageCount(r)
    /\ counted' = IF execFailed THEN counted ELSE <<r>>
    /\ pc' = "catch"
    /\ caught' = Err("pagecount", 0)
    /\ UNCHANGED <<workspace, pagesDir, enhancedDir, pageCount, pageImages, convLim,
                   enhLim, ocrLim, conv, enh, ocr, signal, pageResults, docText, doneOrder, includeMarkers,
                   outcome, limVars, client, auxVars>>

\* the conversion of page i ends successfully: page-i.png exists
ConvDone(i) ==
    /\ conv[i] = "running"
    /\ workspace
    /\ pagesDir' = pagesDir \cup {i}
    /\ convLim' = OnReturn(convLim)
    /\ conv' = Left(conv, convLim, convLim', i, "done")
    /\ UNCHANGED <<pc, workspace, enhancedDir, pageCount, pageImages, enhLim, ocrLim,
                   enh, ocr, signal, pageResults, docText, doneOrder, includeMarkers, caught, outcome, limVars, client, counted, auxVars>>

\* the conversion of page i fails
ConvFail(i) ==
    /\ conv[i] = "running"
    /\ convLim' = OnThrow(convLim)
    /\ conv' = Left(conv, convLim, convLim', i, Rejected)
    /\ Fails("converting", Err("convert", i))
    /\ UNCHANGED <<workspace, pagesDir, enhancedDir, pageCount, pageImages, enhLim,
                   ocrLim, enh, ocr, signal, pageResults, docText, doneOrder, includeMarkers, outcome, limVars, client, counted, auxVars>>

\* a conversion task woken by a release runs its continuation
ConvResume ==
    /\ convLim.woken # <<>>
    /\ convLim' = Resume(convLim)
    /\ conv' = Resumed(conv, convLim, convLim', "running")
    /\ UNCHANGED <<pc, workspace, pagesDir, enhancedDir, pageCount, pageImages, enhLim,
                   ocrLim, enh, ocr, signal, pageResults, docText, doneOrder, includeMarkers, caught, outcome,
                   limVars, client, counted, auxVars>>

\* lines 135-147: all conversions resolved; the directory is listed and sorted
ListPages ==
    /\ pc = "converting"
    /\ AllResolved(conv, pageCount)
    /\ pageImages' = SortByPageNumber(pagesDir)
    /\ pc' = "listed"
    /\ UNCHANGED <<workspace, pagesDir, enhancedDir, pageCount, convLim, enhLim, ocrLim,
                   conv, enh, ocr, signal, pageResults, docText, doneOrder, includeMarkers, caught, outcome,
                   limVars, client, counted, auxVars>>

\* readdir or stat fails
ListPagesFail ==
    /\ pc = "converting"
    /\ AllResolved(conv, pageCount)
    /\ pc' = "catch"
    /\ caught' = Err("list", 0)
    /\ UNCHANGED <<workspace, pagesDir, enhancedDir, pageCount, pageImages, convLim,
                   enhLim, ocrLim, conv, enh, ocr, signal, pageResults, docText, doneOrder, includeMarkers,
                   outcome, limVars, client, counted, auxVars>>

\* lines 205-246: the limiters, the result array and the signals are created,
\* every enhancement task and then every recognition task is handed to its limiter
Launch(emax, omax) ==
    /\ pc = "listed"
    /\ enhLim' = EnterAll(NewLimiter(emax), 1, Len(pageImages))
    /\ ocrLim' = EnterAll(NewLimiter(omax), 1, Len(pageImages))
    /\ enh' = Launched(enhLim', Len(pageImages), "running")
    /\ ocr' = Launched(ocrLim', Len(pageImages), "awaiting")
    /\ pc' = "awaitAll"
    /\ UNCHANGED <<workspace, pagesDir, enhancedDir, pageCount, pageImages, convLim,
                   conv, signal, pageResults, docText, doneOrder, includeMarkers, caught, outcome, limVars, client, counted, auxVars>>

\* mutant: the page's signal is resolved as soon as the file is written
ResolvedOnWrite(sig, i) == [sig EXCEPT ![i] = TRUE]

\* the signals after mwrite(output, out) of page i: _enhanceImageUsingSharp
\* does not touch them, the task resolves its signal after the function returned
SignalsAfterWrite(sig, i) == sig

\* _enhanceImageUsingSharp of page i: the image is read, transformed and written
EnhWrite(i) ==
    /\ enh[i] = "running"
    /\ workspace
    /\ pageImages[i] \in pagesDir
    /\ enhancedDir' = enhancedDir \cup {i}
    /\ enh' = [enh EXCEPT ![i] = "written"]
    /\ signal' = SignalsAfterWrite(signal, i)
    /\ UNCHANGED <<pc, workspace, pagesDir, pageCount, pageImages, convLim, enhLim,
                   ocrLim, conv, ocr, pageResults, docText, doneOrder, includeMarkers, caught, outcome,
                   limVars, client, counted, auxVars>>

\* maccess succeeds, the task resolves the page's signal and returns
EnhDone(i) ==
    /\ enh[i] = "written"
    /\ i \in enhancedDir
    /\ signal' = [signal EXCEPT ![i] = TRUE]
    /\ enhLim' = OnReturn(enhLim)
    /\ enh' = Left(enh, enhLim, enhLim', i, "done")
    /\ UNCHANGED <<pc, workspace, pagesDir, enhancedDir, pageCount, pageImages, convLim,
                   ocrLim, conv, ocr, pageResults, docText, doneOrder, includeMarkers, caught, outcome, limVars, client, counted, auxVars>>

\* the read, the transform, the write or the readability check fails
EnhFail(i) ==
    /\ enh[i] \in {"running", "written"}
    /\ enhLim' = OnThrow(enhLim)
    /\ enh' = Left(enh, enhLim, enhLim', i, Rejected)
    /\ Fails("awaitAll", Err("enhance", i))
    /\ UNCHANGED <<workspace, pagesDir, enhancedDir, pageCount, pageImages, convLim,
                   ocrLim, conv, ocr, signal, pageResults, docText, doneOrder, includeMarkers, outcome, limVars, client, counted, auxVars>>

EnhResume ==
    /\ enhLim.woken # <<>>
    /\ enhLim' = Resume(enhLim)
    /\ enh' = Resumed(enh, enhLim, enhLim', "running")
    /\ UNCHANGED <<pc, workspace, pagesDir, enhancedDir, pageCount, pageImages, convLim,
                   ocrLim, conv, ocr, signal, pageResults, docText, doneOrder, includeMarkers, caught, outcome,
                   limVars, client, counted, auxVars>>

\* the recognition task of page i gets past its await: _performDocumentAiOcrOnImage
\* begins by reading the enhanced image
OcrStart(i) ==
    /\ ocr[i] = "awaiting"
    /\ SignalReady(signal, i)
    /\ ocr' = [ocr EXCEPT ![i] = "reading"]
    /\ UNCHANGED <<pc, workspace, pagesDir, enhancedDir, pageCount, pageImages, convLim,
                   enhLim, ocrLim, conv, enh, signal, pageResults, docText, doneOrder, includeMarkers, caught,
                   outcome, limVars, client, counted, auxVars>>

\* the image was read; processDocument is sent to the service
OcrCall(i) ==
    /\ ocr[i] = "reading"
    /\ workspace
    /\ i \in enhancedDir
    /\ ocr' = [ocr EXCEPT ![i] = "calling"]
    /\ UNCHANGED <<pc, workspace, pagesDir, enhancedDir, pageCount, pageImages, convLim,
                   enhLim, ocrLim, conv, enh, signal, pageResults, docText, doneOrder, includeMarkers, caught,
                   outcome, limVars, client, counted, auxVars>>

\* the service answers with text t; the normalized text is stored
OcrDone(i, t) ==
    /\ ocr[i] = "calling"
    /\ client = "ok"
    /\ docText' = [docText EXCEPT ![i] = t]
    /\ doneOrder' = Append(doneOrder, i)
    /\ pageResults' = StoreResult(pageResults, i, NormalizeExtractedText(OrEmpty(t)))
    /\ ocrLim' = OnReturn(ocrLim)
    /\ ocr' = Left(ocr, ocrLim, ocrLim', i, "done")
    /\ UNCHANGED <<pc, workspace, pagesDir, enhancedDir, pageCount, pageImages, convLim,
                   enhLim, conv, enh, signal, includeMarkers, caught, outcome, limVars, client, counted, auxVars>>

\* the read of the enhanced image or the service call fails
OcrFail(i) ==
    /\ ocr[i] \in {"reading", "calling"}
    /\ ocrLim' = OnThrow(ocrLim)
    /\ ocr' = Left(ocr, ocrLim, ocrLim', i, Rejected)
    /\ Fails("awaitAll", Err("recognize", i))
    /\ UNCHANGED <<workspace, pagesDir, enhancedDir, pageCount, pageImages, convLim,
                   enhLim, conv, enh, signal, pageResults, docText, doneOrder, includeMarkers, outcome, limVars, client, counted, auxVars>>

OcrResume ==
    /\ ocrLim.woken # <<>>
    /\ ocrLim' = Resume(ocrLim)
    /\ ocr' = Resumed(ocr, ocrLim, ocrLim', "awaiting")
    /\ UNCHANGED <<pc, workspace, pagesDir, enhancedDir, pageCount, pageImages, convLim,
                   enhLim, conv, enh, signal, pageResults, docText, doneOrder, includeMarkers, caught, outcome,
                   limVars, client, counted, auxVars>>

\* lines 246-260: Promise.all resolved; the text is assembled and the envelope
\* prepared (it is returned after the removal of the workspace)
Assemble(markers) ==
    /\ pc = "awaitAll"
    /\ AllResolved(enh, Len(pageImages)) /\ AllResolved(ocr, Len(pageImages))
    /\ outcome' = [kind |-> "none", success |-> TRUE,
                   text |-> Trim(AssembleFrom(pageResults, Len(pageImages), markers, 1)),
                   pages |-> Len(pageImages), error |-> NoError,
                   message |-> NoMessage]
    /\ includeMarkers' = markers
    /\ pc' = "assembled"
    /\ UNCHANGED <<workspace, pagesDir, enhancedDir, pageCount, pageImages, convLim,
                   enhLim, ocrLim, conv, enh, ocr, signal, pageResults, docText,
                   doneOrder, caught, limVars, client, counted, auxVars>>

\* line 260: the workspace is removed; lines 263-268: the envelope is returned
Return ==
    /\ pc = "assembled"
    /\ workspace' = FALSE
    /\ pagesDir' = {}
    /\ enhancedDir' = {}
    /\ outcome' = [outcome EXCEPT !.kind = "returned"]
    /\ pc' = "returned"
    /\ UNCHANGED <<pageCount, pageImages, convLim, enhLim, ocrLim, conv, enh, ocr,
                   signal, pageResults, docText, doneOrder, includeMarkers, caught, limVars, client, counted, auxVars>>

\* line 272: the catch clause removes the workspace
Cleanup ==
    /\ pc = "catch"
    /\ workspace' = CatchCleanup(workspace)
    /\ pagesDir' = IF workspace' THEN pagesDir ELSE {}
    /\ enhancedDir' = IF workspace' THEN enhancedDir ELSE {}
    /\ pc' = "cleaned"
    /\ UNCHANGED <<pageCount, pageImages, convLim, enhLim, ocrLim, conv, enh, ocr,
                   signal, pageResults, docText, doneOrder, includeMarkers, caught, outcome, limVars, client, counted, auxVars>>

\* line 273: the error is thrown to the caller, who reads its message m
Throw ==
    /\ pc = "cleaned"
    /\ \E m \in Messages(Rethrow(caught)) :
          outcome' = [kind |-> "thrown", success |-> FALSE, text |-> <<>>, pages |-> 0,
                      error |-> Rethrow(caught), message |-> m]
    /\ pc' = "thrown"
    /\ UNCHANGED <<workspace, pagesDir, enhancedDir, pageCount, pageImages, convLim,
                   enhLim, ocrLim, conv, enh, ocr, signal, pageResults, docText, doneOrder, includeMarkers,
                   caught, limVars, client, counted, auxVars>>

Next ==
    \/ CreateWorkspace
    \/ CreateWorkspaceFail
    \/ \E r \in PageCountOutputs, max \in 1..MaxLimit : PageCountOk(r, max)
    \/ \E execFailed \in BOOLEAN, r \in PageCountOutputs : PageCountFail(execFailed, r)
    \/ \E i \in Pages : ConvDone(i)
    \/ \E i \in Pages : ConvFail(i)
    \/ ConvResume
    \/ ListPages
    \/ ListPagesFail
    \/ \E emax \in 1..MaxLimit, omax \in 1..MaxLimit : Launch(emax, omax)
    \/ \E i \in Pages : EnhWrite(i)
    \/ \E i \in Pages : EnhDone(i)
    \/ \E i \in Pages : EnhFail(i)
    \/ EnhResume
    \/ \E i \in Pages : OcrStart(i)
    \/ \E i \in Pages : OcrCall(i)
    \/ \E i \in Pages : \E t \in RawTexts : OcrDone(i, t)
    \/ \E i \in Pages : OcrFail(i)
    \/ OcrResume
    \/ \E markers \in BOOLEAN : Assemble(markers)
    \/ Return
    \/ Cleanup
    \/ Throw

Spec == Init /\ [][Next]_vars

\* ---------------------------------------------------- GetSpec: getContent
\* A file name is a sequence of characters, a chunk a sequence of bytes.
FileNames ==
    { <<"a", ".", "t", "x", "t">>,
      <<"a", ".", "T", "x", "T">>,
      <<".", "t", "x", "t">>,
      <<"a", ".", "t", "x", "t", ".", "p", "d", "f">>,
      <<"d", ".", "t", "x", "t", "/", "a">> }
Chunks == { <<97, 13>>, <<10>> }
Streams == UNION { [1..n -> Chunks] : n \in 0..MaxChunks }

\* position of the last occurrence of ch in s (0: none)
LastIndexOf(s, ch) ==
    LET at == {k \in 1..Len(s) : s[k] = ch}
    IN  IF at = {} THEN 0 ELSE CHOOSE k \in at : \A j \in at : j <= k

\* path.extname: from the last "." of the last path segment to the end; empty
\* when there is no "." or the segment begins with its only "."
ExtName(name) ==
    LET base == SubSeq(name, LastIndexOf(name, "/") + 1, Len(name))
        dot == LastIndexOf(base, ".")
    IN  IF dot <= 1 THEN <<>> ELSE SubSeq(base, dot, Len(base))

\* mutant: the extension is compared as it is written
KeepCase(s) == s

\* String.prototype.toLowerCase (the letters of the model's file names)
Lower(s) ==
    [k \in 1..Len(s) |-> CASE s[k] = "T" -> "t" [] s[k] = "X" -> "x" [] OTHER -> s[k]]

\* the test of line 287
IsTextFile(name) == Lower(ExtName(name)) = <<".", "t", "x", "t">>

\* Buffer.concat(chunks)
RECURSIVE Concat(_)
Concat(cs) == IF cs = <<>> THEN <<>> ELSE Head(cs) \o Concat(Tail(cs))

\* the UTF-8 code of a character of a result text
Utf8Code(ch) ==
    CASE ch = LF -> 10 [] ch = CR -> 13 [] ch = TAB -> 9 [] ch = SP -> 32
      [] ch = "a" -> 97 [] ch = "b" -> 98 [] OTHER -> 63

\* Buffer.from(text): the UTF-8 bytes of the text
BufferFrom(text) == [k \in 1..Len(text) |-> Utf8Code(text[k])]

\* getContent(stream, fileName) was called
GetInit ==
    /\ gpc = "called"
    /\ fileName \in FileNames
    /\ input \in Streams
    /\ rest = input
    /\ chunks = <<>>
    /\ gresult = <<>>
    /\ PipeInit /\ pc = "idle" /\ client = "ok"
    /\ LimIdle /\ NormIdle /\ ListIdle /\ ExtraIdle

\* line 287: the extension decides between the text branch and the pipeline
GetDispatch ==
    /\ gpc = "called"
    /\ gpc' = IF IsTextFile(fileName) THEN "text" ELSE "pdf"
    /\ UNCHANGED <<fileName, input, rest, chunks, gresult, limVars, pipeVars, normVars, listVars, extraVars>>

\* `for await (const c of stream) chunks.push(c)` (lines 282 and 289)
GetChunk ==
    /\ gpc \in {"text", "pdf"}
    /\ rest # <<>>
    /\ chunks' = Append(chunks, Head(rest))
    /\ rest' = Tail(rest)
    /\ UNCHANGED <<gpc, fileName, input, gresult, limVars, pipeVars, normVars, listVars, extraVars>>

\* line 290: the stream ended, the concatenated chunks are returned
GetReturnText ==
    /\ gpc = "text"
    /\ rest = <<>>
    /\ gresult' = Concat(chunks)
    /\ gpc' = "returned"
    /\ UNCHANGED <<fileName, input, rest, chunks, limVars, pipeVars, normVars, listVars, extraVars>>

\* lines 292-293: the stream ended, _runOcrProcessingPipeline is called
GetRunPipeline ==
    /\ gpc = "pdf"
    /\ rest = <<>>
    /\ pc = "idle"
    /\ pc' = "start"
    /\ gpc' = "pipeline"
    /\ UNCHANGED <<fileName, input, rest, chunks, gresult, limVars, normVars, listVars, extraVars,
                   workspace, pagesDir, enhancedDir, pageCount, pageImages, convLim,
                   enhLim, ocrLim, conv, enh, ocr, signal, pageResults, docText,
                   doneOrder, includeMarkers, caught, outcome, client, counted>>

\* line 297: the text of the envelope is returned as a buffer
GetReturnOcr ==
    /\ gpc = "pipeline"
    /\ outcome.kind = "returned"
    /\ gresult' = BufferFrom(outcome.text)
    /\ gpc' = "returned"
    /\ UNCHANGED <<fileName, input, rest, chunks, limVars, pipeVars, normVars, listVars, extraVars>>

\* the pipeline threw: the await of line 293 rethrows
GetThrow ==
    /\ gpc = "pipeline"
    /\ outcome.kind = "thrown"
    /\ gpc' = "thrown"
    /\ UNCHANGED <<fileName, input, rest, chunks, gresult, limVars, pipeVars, normVars, listVars, extraVars>>

\* the page counts and recognized texts of the documents passed to getContent
GetPageCounts == {NaN} \cup {Num(k) : k \in 0..GetMaxPages}
GetTexts == { <<"a", SP, CR, LF>>, NoText }

\* getContent with the pipeline it starts (includeMarkers is false, line 295;
\* the CONCURRENCY_* limits are 1)
GetNext ==
    \/ GetDispatch
    \/ GetChunk
    \/ GetReturnText
    \/ GetRunPipeline
    \/ GetReturnOcr
    \/ GetThrow
    \/ CreateWorkspace
    \/ CreateWorkspaceFail
    \/ \E r \in GetPageCounts : PageCountOk(r, 1)
    \/ \E execFailed \in BOOLEAN, r \in GetPageCounts : PageCountFail(execFailed, r)
    \/ \E i \in Pages : ConvDone(i)
    \/ \E i \in Pages : ConvFail(i)
    \/ ConvResume
    \/ ListPages
    \/ ListPagesFail
    \/ Launch(1, 1)
    \/ \E i \in Pages : EnhWrite(i)
    \/ \E i \in Pages : EnhDone(i)
    \/ \E i \in Pages : EnhFail(i)
    \/ EnhResume
    \/ \E i \in Pages : OcrStart(i)
    \/ \E i \in Pages : OcrCall(i)
    \/ \E i \in Pages : \E t \in GetTexts : OcrDone(i, t)
    \/ \E i \in Pages : OcrFail(i)
    \/ OcrResume
    \/ Assemble(FALSE)
    \/ Return
    \/ Cleanup
    \/ Throw

GetSpec == GetInit /\ [][GetNext]_vars

\* -------------------------------------- NormSpec: _normalizeExtractedText alone
\* the arguments: every text of up to MaxTextLen characters, and no text at all
TextChars == {"a", SP, TAB, LF, CR}
Texts == UNION { [1..n -> TextChars] : n \in 0..MaxTextLen }

NormInit ==
    /\ nin \in Texts \cup {NoText}
    /\ nout = Unset
    /\ PipeInit /\ pc = "idle" /\ client = "ok"
    /\ LimIdle /\ GetIdle /\ ListIdle /\ ExtraIdle

\* _normalizeExtractedText(nin) is called and returns
NormCall ==
    /\ nout = Unset
    /\ nout' = NormalizeExtractedText(nin)
    /\ UNCHANGED <<nin, limVars, pipeVars, getVars, listVars, extraVars>>

NormNext == NormCall

NormSpec == NormInit /\ [][NormNext]_vars

\* ------------------- ListSpec: the listing of _convertPdfToPngImages alone
DigitChars == <<"0", "1", "2", "3", "4", "5", "6", "7", "8", "9">>
IsDigit(ch) == \E d \in 1..10 : DigitChars[d] = ch
DigitValue(ch) == (CHOOSE d \in 1..10 : DigitChars[d] = ch) - 1

\* `${pageNum}`: the decimal digits of k
RECURSIVE Decimal(_)
Decimal(k) ==
    IF k < 10 THEN <<DigitChars[k + 1]>>
    ELSE Decimal(k \div 10) \o <<DigitChars[(k % 10) + 1]>>

\* `page-${pageNum}.png`, the file `mutool draw` writes for page k
PageFile(k) == <<"p", "a", "g", "e", "-">> \o Decimal(k) \o <<".", "p", "n", "g">>

\* f.endsWith(".png")
EndsWithPng(f) ==
    Len(f) >= 4 /\ SubSeq(f, Len(f) - 3, Len(f)) = <<".", "p", "n", "g">>

\* the value of the digits of s from position i up to the first non-digit,
\* acc being the value of the digits read so far
RECURSIVE DigitsFrom(_, _, _)
DigitsFrom(s, i, acc) ==
    IF i > Len(s) \/ ~IsDigit(s[i]) THEN acc
    ELSE DigitsFrom(s, i + 1, 10 * acc + DigitValue(s[i]))

\* a.match(/\d+/)[0] as a number: the first run of digits of the name
FirstNumber(f) ==
    LET at == {k \in 1..Len(f) : IsDigit(f[k])}
    IN  DigitsFrom(f, CHOOSE k \in at : \A j \in at : k <= j, 0)

\* the code of a character of a file name
NameCode(ch) ==
    CASE ch = "-" -> 45 [] ch = "." -> 46 [] IsDigit(ch) -> 48 + DigitValue(ch)
      [] ch = "a" -> 97 [] ch = "e" -> 101 [] ch = "g" -> 103
      [] ch = "n" -> 110 [] ch = "p" -> 112 [] OTHER -> 63

\* mutant: the names are compared as strings (the default of Array.sort)
RECURSIVE CompareNames(_, _)
CompareNames(a, b) ==
    IF a = <<>> /\ b = <<>> THEN 0
    ELSE IF a = <<>> THEN -1
    ELSE IF b = <<>> THEN 1
    ELSE IF NameCode(Head(a)) # NameCode(Head(b))
         THEN NameCode(Head(a)) - NameCode(Head(b))
    ELSE CompareNames(Tail(a), Tail(b))

\* the comparator (a, b) => a.match(/\d+/)[0] - b.match(/\d+/)[0]
ComparePages(a, b) == FirstNumber(a) - FirstNumber(b)

\* Array.prototype.sort with that comparator (a stable sort)
RECURSIVE InsertFile(_, _)
InsertFile(f, sorted) ==
    IF sorted = <<>> THEN <<f>>
    ELSE IF ComparePages(f, Head(sorted)) < 0 THEN <<f>> \o sorted
    ELSE <<Head(sorted)>> \o InsertFile(f, Tail(sorted))
RECURSIVE SortFiles(_)
SortFiles(fs) ==
    IF fs = <<>> THEN <<>>
    ELSE InsertFile(fs[Len(fs)], SortFiles(SubSeq(fs, 1, Len(fs) - 1)))

\* .filter(f => f.endsWith(".png"))
RECURSIVE FilterPng(_)
FilterPng(fs) ==
    IF fs = <<>> THEN <<>>
    ELSE (IF EndsWithPng(Head(fs)) THEN <<Head(fs)>> ELSE <<>>) \o FilterPng(Tail(fs))

\* path.join(outDir, f): the directory and the name
OutDir == <<"p", "a", "g", "e", "s", "/">>
JoinOutDir(f) == OutDir \o f

\* the orders in which readdir may list the files of n converted pages:
\* ascending or descending page number, begun at any file (the directory
\* holds nothing but the page files)
ListingOrders(n) ==
    { [k \in 1..n |-> PageFile(((k + r - 1) % n) + 1)] : r \in 0..(n - 1) }
    \cup { [k \in 1..n |-> PageFile(n - ((k + r - 1) % n))] : r \in 0..(n - 1) }

\* all conversions of a document of n pages resolved; readdir answered
ListInit ==
    /\ \E n \in 1..MaxListed : listing \in ListingOrders(n)
    /\ files = Unset
    /\ PipeInit /\ pc = "idle" /\ client = "ok"
    /\ LimIdle /\ GetIdle /\ NormIdle /\ ExtraIdle

\* lines 135-138: filter, sort, map
ListSorted ==
    /\ files = Unset
    /\ files' = [k \in 1..Len(SortFiles(FilterPng(listing))) |->
                    JoinOutDir(SortFiles(FilterPng(listing))[k])]
    /\ UNCHANGED <<listing, limVars, pipeVars, getVars, normVars, extraVars>>

ListNext == ListSorted

ListSpec == ListInit /\ [][ListNext]_vars

\* ------------- LiveSpec: a pipeline run in which every external call succeeds
\* the client is usable and the service answers every page with a text
LiveInit ==
    /\ PipeInit /\ pc = "start"
    /\ client = "ok"
    /\ LimIdle /\ GetIdle /\ NormIdle /\ ListIdle /\ ExtraIdle
LiveTexts == { <<"b">> }

\* the steps of the pipeline that are no failure of an external call
LiveNext ==
    \/ CreateWorkspace
    \/ \E r \in PageCountOutputs, max \in 1..MaxLimit : PageCountOk(r, max)
    \/ \E i \in Pages : ConvDone(i)
    \/ ConvResume
    \/ ListPages
    \/ \E emax \in 1..MaxLimit, omax \in 1..MaxLimit : Launch(emax, omax)
    \/ \E i \in Pages : EnhWrite(i)
    \/ \E i \in Pages : EnhDone(i)
    \/ EnhResume
    \/ \E i \in Pages : OcrStart(i)
    \/ \E i \in Pages : OcrCall(i)
    \/ \E i \in Pages : \E t \in LiveTexts : OcrDone(i, t)
    \/ OcrResume
    \/ \E markers \in BOOLEAN : Assemble(markers)
    \/ Return

\* Fairness: the event loop runs every continuation that is ready, and every
\* external call that was started returns, so a step that is possible is
\* eventually taken.
LiveSpec == LiveInit /\ [][LiveNext]_vars /\ WF_vars(LiveNext)

\* ------------------------------------------------------- LimSpec: limiter alone
LimInit ==
    /\ \E m \in 1..MaxLimit : lim = NewLimiter(m)
    /\ cst = [c \in Callers |-> "idle"]
    /\ arrived = <<>>
    /\ threw = {}
    /\ PipeInit /\ pc = "idle" /\ client = "ok"
    /\ GetIdle /\ NormIdle /\ ListIdle /\ ExtraIdle

\* state of caller c after a step that took the limiter from l to l2
AfterEnter(l, l2) == IF l2.active > l.active THEN "running" ELSE "waiting"

\* limiter(fn) is called by c
LCall(c) ==
    /\ cst[c] = "idle"
    /\ lim' = Enter(lim, c)
    /\ cst' = [cst EXCEPT ![c] = AfterEnter(lim, lim')]
    /\ arrived' = Append(arrived, c)
    /\ UNCHANGED <<threw, pipeVars, auxVars>>

\* the continuation of the oldest woken caller runs
LResume ==
    /\ lim.woken # <<>>
    /\ lim' = Resume(lim)
    /\ cst' = [cst EXCEPT ![Head(lim.woken)] = AfterEnter(lim, lim')]
    /\ UNCHANGED <<arrived, threw, pipeVars, auxVars>>

\* caller states after the limiter went from l to l2 on an exit of c
AfterExit(l, l2, c, how) ==
    [d \in Callers |->
        IF d = c THEN how
        ELSE IF Len(l2.woken) > Len(l.woken) /\ d = l2.woken[Len(l2.woken)] THEN "woken"
        ELSE cst[d]]

\* the function run for c resolves
LResolve(c) ==
    /\ cst[c] = "running"
    /\ lim' = OnReturn(lim)
    /\ cst' = AfterExit(lim, lim', c, Settled(FALSE))
    /\ UNCHANGED <<arrived, threw, pipeVars, auxVars>>

\* the function run for c throws
LReject(c) ==
    /\ cst[c] = "running"
    /\ lim' = OnThrow(lim)
    /\ cst' = AfterExit(lim, lim', c, Settled(TRUE))
    /\ threw' = threw \cup {c}
    /\ UNCHANGED <<arrived, pipeVars, auxVars>>

LimNext ==
    \/ \E c \in Callers : LCall(c)
    \/ LResume
    \/ \E c \in Callers : LResolve(c)
    \/ \E c \in Callers : LReject(c)

LimSpec == LimInit /\ [][LimNext]_vars

\* ------------- LimLiveSpec: the limiter with callers that call again and again
\* caller c, whose call has settled, is ready to call the limiter once more
LAgain(c) ==
    /\ cst[c] \in {"resolved", "rejected"}
    /\ cst' = [cst EXCEPT ![c] = "idle"]
    /\ arrived' = SelectSeq(arrived, LAMBDA d : d # c)
    /\ threw' = threw \ {c}
    /\ UNCHANGED <<lim, pipeVars, auxVars>>

LimLiveNext ==
    \/ \E c \in Callers : LCall(c)
    \/ LResume
    \/ \E c \in Callers : LResolve(c)
    \/ \E c \in Callers : LReject(c)
    \/ \E c \in Callers : LAgain(c)

\* Fairness: the continuation of a woken caller is a queued microtask and
\* runs; every admitted function settles. Nothing obliges a caller to call.
LimLiveSpec ==
    /\ LimInit /\ [][LimLiveNext]_vars
    /\ WF_vars(LResume)
    /\ \A c \in Callers : WF_vars(LResolve(c) \/ LReject(c))

\* --------------- MultiSpec: several getContent calls running in one process
\* Each call of getContent runs _runOcrProcessingPipeline, and each run of the
\* pipeline executes `createConcurrencyLimiter(CONCURRENCY_GOOGLE_OCR)` (line
\* 213) for itself. Only the recognition stage of each session is followed
\* here; rasterization and enhancement are taken to succeed. The limiters of
\* these two stages are created in the same way (lines 120 and 212).
Sessions == 1..MaxSessions

\* the module was loaded, no call has been made yet
MultiInit ==
    /\ googleOcrLimit \in 1..MaxLimit
    /\ ocrLimiters = <<>>
    /\ ocrTasks = <<>>
    /\ PipeInit /\ pc = "idle" /\ client = "ok"
    /\ LimIdle /\ GetIdle /\ NormIdle /\ ListIdle /\ CliIdle /\ DbIdle

\* one more call of getContent, for a document of n pages, has reached lines
\* 212-245: its pipeline creates its ocrLimiter and maps the pages to tasks
MGetContent(n) ==
    /\ Len(ocrLimiters) < MaxSessions
    /\ LET l == EnterAll(NewLimiter(googleOcrLimit), 1, n)
       IN /\ ocrLimiters' = Append(ocrLimiters, l)
          /\ ocrTasks' = Append(ocrTasks, Launched(l, n, "awaiting"))
    /\ UNCHANGED <<googleOcrLimit, limVars, pipeVars, getVars, normVars, listVars,
                   cliVars, dbVars>>

\* page i of session s: the enhancement signal resolved, processDocument is
\* sent to the service
MOcrCall(s, i) ==
    /\ s \in DOMAIN ocrTasks
    /\ ocrTasks[s][i] = "awaiting"
    /\ ocrTasks' = [ocrTasks EXCEPT ![s][i] = "calling"]
    /\ UNCHANGED <<googleOcrLimit, ocrLimiters, limVars, pipeVars, getVars, normVars,
                   listVars, cliVars, dbVars>>

\* the service answers the call for page i of session s
MOcrDone(s, i) ==
    /\ s \in DOMAIN ocrTasks
    /\ ocrTasks[s][i] = "calling"
    /\ ocrLimiters' = [ocrLimiters EXCEPT ![s] = OnReturn(@)]
    /\ ocrTasks' = [ocrTasks EXCEPT
                       ![s] = Left(@, ocrLimiters[s], ocrLimiters'[s], i, "done")]
    /\ UNCHANGED <<googleOcrLimit, limVars, pipeVars, getVars, normVars, listVars,
                   cliVars, dbVars>>

\* the call for page i of session s fails
MOcrFail(s, i) ==
    /\ s \in DOMAIN ocrTasks
    /\ ocrTasks[s][i] = "calling"
    /\ ocrLimiters' = [ocrLimiters EXCEPT ![s] = OnThrow(@)]
    /\ ocrTasks' = [ocrTasks EXCEPT
                       ![s] = Left(@, ocrLimiters[s], ocrLimiters'[s], i, Rejected)]
    /\ UNCHANGED <<googleOcrLimit, limVars, pipeVars, getVars, normVars, listVars,
                   cliVars, dbVars>>

\* the continuation of the oldest woken task of session s runs
MOcrResume(s) ==
    /\ s \in DOMAIN ocrTasks
    /\ ocrLimiters[s].woken # <<>>
    /\ ocrLimiters' = [ocrLimiters EXCEPT ![s] = Resume(@)]
    /\ ocrTasks' = [ocrTasks EXCEPT
                       ![s] = Resumed(@, ocrLimiters[s], ocrLimiters'[s], "awaiting")]
    /\ UNCHANGED <<googleOcrLimit, limVars, pipeVars, getVars, normVars, listVars,
                   cliVars, dbVars>>

MultiNext ==
    \/ \E n \in 1..SessionMaxPages : MGetContent(n)
    \/ \E s \in Sessions, i \in Pages : MOcrCall(s, i)
    \/ \E s \in Sessions, i \in Pages : MOcrDone(s, i)
    \/ \E s \in Sessions, i \in Pages : MOcrFail(s, i)
    \/ \E s \in Sessions : MOcrResume(s)

MultiSpec == MultiInit /\ [][MultiNext]_vars

\* ------------------------- CliSpec: the command line tool (src/unnamed/part_000)
\* The tool is run MaxRuns times on the same input. In directory mode the
\* input is a directory whose entries are plain files, subdirectories without
\* a PDF and subdirectories with a PDF; in file mode it is one file, a PDF or
\* not. What getContent does is left open: it returns some buffer or throws.
EntryKinds == {"file", "nopdf", "pdf"}

\* no file of that name
NoFile == "ENOENT"

\* the buffers getContent can return: a text, or no bytes at all
OcrBuffers == {"text", ""}

\* mutant: the test for the .txt is left out
NeverExists(content) == FALSE

\* fs.existsSync(outputTxtPath)
Exists(content) == content # NoFile

\* where the tool goes on when processSinglePdf has returned
Returned(mode) == IF mode = "dir" THEN "loop" ELSE "exit0"

\* mutant: an exception of processSinglePdf ends the run in both modes
Fatal(mode) == "exit1"

\* where the tool goes on when processSinglePdf has thrown: the catch clause of
\* the loop (lines 72-74) logs and the loop continues; in file mode the
\* rejection reaches main().catch, which exits with status 1
Thrown(mode) == IF mode = "dir" THEN "loop" ELSE "exit1"

\* a console line of the current run about entry k
Line(k, msg) == [run |-> runNo, entry |-> k, msg |-> msg]

CliInputs(mode) ==
    IF mode = "file" THEN { <<"pdf">>, <<"file">> }
    ELSE UNION { [1..n -> EntryKinds] : n \in 0..MaxDirents }

\* the tool is started for the first time; beside a PDF there is a .txt
\* already, or none
CliInit ==
    /\ argMode \in {"file", "dir"}
    /\ dirents \in CliInputs(argMode)
    /\ txt \in [1..Len(dirents) -> {NoFile, "old"}]
    /\ \A k \in 1..Len(dirents) : dirents[k] # "pdf" => txt[k] = NoFile
    /\ cpc = "main"
    /\ cur = 0
    /\ runNo = 1
    /\ ocrCalls = [k \in 1..Len(dirents) |-> 0]
    /\ buffer = ""
    /\ log = {}
    /\ PipeInit /\ pc = "idle" /\ client = "ok"
    /\ LimIdle /\ GetIdle /\ NormIdle /\ ListIdle /\ MultiIdle /\ DbIdle

\* main, lines 101-118: a file must be a PDF and is processed; a directory is
\* read and its entries are looped over
Main ==
    /\ cpc = "main"
    /\ IF argMode = "file"
       THEN IF dirents[1] = "pdf"
            THEN cpc' = "single" /\ cur' = 1 /\ log' = log
            ELSE cpc' = "exit1" /\ cur' = cur /\ log' = log \cup {Line(1, "notpdf")}
       ELSE cpc' = "loop" /\ cur' = 0 /\ log' = log
    /\ UNCHANGED <<argMode, dirents, txt, runNo, ocrCalls, buffer, limVars, pipeVars,
                   getVars, normVars, listVars, multiVars, dbVars>>

\* processDirectory, lines 52-68: the next entry is taken; an entry that is
\* no directory or holds no PDF is passed over; after the last entry the run
\* ends
Loop ==
    /\ cpc = "loop"
    /\ IF cur = Len(dirents)
       THEN cpc' = "exit0" /\ cur' = cur /\ log' = log \cup {Line(0, "done")}
       ELSE /\ cur' = cur + 1
            /\ cpc' = IF dirents[cur + 1] = "pdf" THEN "single" ELSE "loop"
            /\ log' = IF dirents[cur + 1] = "nopdf"
                      THEN log \cup {Line(cur + 1, "nopdf")} ELSE log
    /\ UNCHANGED <<argMode, dirents, txt, runNo, ocrCalls, buffer, limVars, pipeVars,
                   getVars, normVars, listVars, multiVars, dbVars>>

\* line 56 is outside the try block: when a subdirectory cannot be read,
\* processDirectory rejects and main().catch exits with status 1
SubdirReadFail ==
    /\ cpc = "loop"
    /\ cur < Len(dirents)
    /\ dirents[cur + 1] # "file"
    /\ cur' = cur + 1
    /\ cpc' = "exit1"
    /\ log' = log \cup {Line(cur + 1, "fatal")}
    /\ UNCHANGED <<argMode, dirents, txt, runNo, ocrCalls, buffer, limVars, pipeVars,
                   getVars, normVars, listVars, multiVars, dbVars>>

\* processSinglePdf, lines 14-32: return when the .txt exists, else call
\* getContent
ProcessSinglePdf ==
    /\ cpc = "single"
    /\ IF Exists(txt[cur])
       THEN /\ cpc' = Returned(argMode)
            /\ log' = log \cup {Line(cur, "skip")}
            /\ ocrCalls' = ocrCalls
       ELSE /\ cpc' = "ocr"
            /\ log' = log \cup {Line(cur, "start")}
            /\ ocrCalls' = [ocrCalls EXCEPT ![cur] = @ + 1]
    /\ UNCHANGED <<argMode, dirents, txt, cur, runNo, buffer, limVars, pipeVars,
                   getVars, normVars, listVars, multiVars, dbVars>>

\* lines 32-38: getContent returned b; writeFile is called
GetContentReturns(b) ==
    /\ cpc = "ocr"
    /\ buffer' = b
    /\ cpc' = "write"
    /\ log' = IF b = "" THEN log \cup {Line(cur, "empty")} ELSE log
    /\ UNCHANGED <<argMode, dirents, txt, cur, runNo, ocrCalls, limVars, pipeVars,
                   getVars, normVars, listVars, multiVars, dbVars>>

\* line 32: getContent threw; processSinglePdf rejects
GetContentThrows ==
    /\ cpc = "ocr"
    /\ cpc' = Thrown(argMode)
    /\ log' = log \cup {Line(cur, "failed:ocr")}
    /\ UNCHANGED <<argMode, dirents, txt, cur, runNo, ocrCalls, buffer, limVars,
                   pipeVars, getVars, normVars, listVars, multiVars, dbVars>>

\* lines 38-40: the file is written
WriteOk ==
    /\ cpc = "write"
    /\ txt' = [txt EXCEPT ![cur] = buffer]
    /\ cpc' = Returned(argMode)
    /\ log' = log \cup {Line(cur, "saved")}
    /\ UNCHANGED <<argMode, dirents, cur, runNo, ocrCalls, buffer, limVars, pipeVars,
                   getVars, normVars, listVars, multiVars, dbVars>>

\* line 38: writeFile rejects; the file was not created, or it was created
\* and holds none of the bytes
WriteFail(left) ==
    /\ cpc = "write"
    /\ txt' = [txt EXCEPT ![cur] = left]
    /\ cpc' = Thrown(argMode)
    /\ log' = log \cup {Line(cur, "failed:write")}
    /\ UNCHANGED <<argMode, dirents, cur, runNo, ocrCalls, buffer, limVars, pipeVars,
                   getVars, normVars, listVars, multiVars, dbVars>>

\* the process has exited; the tool is started again on the same input
RunAgain ==
    /\ cpc \in {"exit0", "exit1"}
    /\ runNo < MaxRuns
    /\ runNo' = runNo + 1
    /\ cpc' = "main"
    /\ cur' = 0
    /\ UNCHANGED <<argMode, dirents, txt, ocrCalls, buffer, log, limVars, pipeVars,
                   getVars, normVars, listVars, multiVars, dbVars>>

CliNext ==
    \/ Main
    \/ Loop
    \/ SubdirReadFail
    \/ ProcessSinglePdf
    \/ \E b \in OcrBuffers : GetContentReturns(b)
    \/ GetContentThrows
    \/ WriteOk
    \/ \E left \in {NoFile, ""} : WriteFail(left)
    \/ RunAgain

CliSpec == CliInit /\ [][CliNext]_vars

\* ------------------ DbSpec: the act / regulation store (src/lawsStorageSimple.js)
\* Tables Acts, Regulations and Chapters of the store kept in newLaws.db, with
\* foreign keys enforced (PRAGMA foreign_keys = ON, line 28). Of a chapter
\* row the columns chapter_title, act_id and regulation_id are kept; of acts
\* and regulations the primary keys.
Null == "NULL"      \* SQL NULL; as an argument: null or undefined
OwnerIds == {ToString(k) : k \in 1..MaxIds}
ChapterIds == {ToString(k) : k \in 1..MaxChapters}

\* `!act_id`, `!regulation_id`
Falsy(v) == v \in {Null, ""}

\* VALUES (?, ?, ?, ?, ?, NULL), line 212
ByActValues(title, a) ==
    [chapter_title |-> title, act_id |-> a, regulation_id |-> Null]

\* VALUES (?, ?, ?, ?, NULL, ?), line 243
ByRegulationValues(title, r) ==
    [chapter_title |-> title, act_id |-> Null, regulation_id |-> r]

\* mutant: the conflict clause sets the new owner and leaves the other column
KeepOtherOwner(old, excluded) ==
    [old EXCEPT !.chapter_title = excluded.chapter_title,
                !.regulation_id = excluded.regulation_id]

\* ON CONFLICT(chapter_id) DO UPDATE SET ..., lines 213-218
UpdateByAct(old, excluded) ==
    [old EXCEPT !.chapter_title = excluded.chapter_title,
                !.act_id = excluded.act_id,
                !.regulation_id = Null]

\* ON CONFLICT(chapter_id) DO UPDATE SET ..., lines 244-249
UpdateByRegulation(old, excluded) ==
    [old EXCEPT !.chapter_title = excluded.chapter_title,
                !.act_id = Null,
                !.regulation_id = excluded.regulation_id]

\* the CHECK constraint of table Chapters, lines 63-67
CheckOwner(row) ==
    \/ row.act_id # Null /\ row.regulation_id = Null
    \/ row.act_id = Null /\ row.regulation_id # Null

\* the two FOREIGN KEY constraints of table Chapters, lines 59-60
ForeignKeysHold(row) ==
    /\ row.act_id # Null => row.act_id \in acts
    /\ row.regulation_id # Null => row.regulation_id \in regulations

\* the owner column of the row the statement meets under chapter_id
Met(ch) ==
    IF ch \notin DOMAIN chapters THEN "none"
    ELSE IF chapters[ch].act_id # Null THEN "act" ELSE "regulation"

\* table Chapters with the row of ch written
Put(ch, row) ==
    [c \in (DOMAIN chapters) \cup {ch} |-> IF c = ch THEN row ELSE chapters[c]]

\* table Chapters without the rows of the chapters in gone
Without(gone) ==
    [c \in (DOMAIN chapters) \ gone |-> chapters[c]]

\* what is kept of a call: its name and arguments, the owner column of the
\* row it met, and whether it rejected
Called(fn, ch, owner, rej) ==
    [fn |-> fn, chapter_id |-> ch, owner |-> owner, met |-> Met(ch), rejected |-> rej]

\* initDB has run on an empty database file
DbInit ==
    /\ acts = {}
    /\ regulations = {}
    /\ chapters = <<>>
    /\ dbOut = Called("initDB", Null, Null, FALSE)
    /\ PipeInit /\ pc = "idle" /\ client = "ok"
    /\ LimIdle /\ GetIdle /\ NormIdle /\ ListIdle /\ MultiIdle /\ CliIdle

AddOrUpdateAct(a) ==
    /\ acts' = acts \cup {a}
    /\ dbOut' = Called("addOrUpdateAct", Null, a, FALSE)
    /\ UNCHANGED <<regulations, chapters, limVars, pipeVars, getVars, normVars,
                   listVars, multiVars, cliVars>>

AddOrUpdateRegulation(r) ==
    /\ regulations' = regulations \cup {r}
    /\ dbOut' = Called("addOrUpdateRegulation", Null, r, FALSE)
    /\ UNCHANGED <<acts, chapters, limVars, pipeVars, getVars, normVars, listVars,
                   multiVars, cliVars>>

\* the statement of an upsert: the row is written when the constraints hold,
\* else db.run rejects and the table is as before
Run(fn, ch, owner, row) ==
    IF ForeignKeysHold(row) /\ CheckOwner(row)
    THEN chapters' = Put(ch, row) /\ dbOut' = Called(fn, ch, owner, FALSE)
    ELSE chapters' = chapters /\ dbOut' = Called(fn, ch, owner, TRUE)

\* lines 195-223
AddOrUpdateChapterByAct(ch, title, a) ==
    /\ IF Falsy(a)
       THEN /\ chapters' = chapters
            /\ dbOut' = Called("addOrUpdateChapterByAct", ch, a, TRUE)
       ELSE Run("addOrUpdateChapterByAct", ch, a,
                IF ch \in DOMAIN chapters
                THEN UpdateByAct(chapters[ch], ByActValues(title, a))
                ELSE ByActValues(title, a))
    /\ UNCHANGED <<acts, regulations, limVars, pipeVars, getVars, normVars, listVars,
                   multiVars, cliVars>>

\* lines 225-254
AddOrUpdateChapterByRegulation(ch, title, r) ==
    /\ IF Falsy(r)
       THEN /\ chapters' = chapters
            /\ dbOut' = Called("addOrUpdateChapterByRegulation", ch, r, TRUE)
       ELSE Run("addOrUpdateChapterByRegulation", ch, r,
                IF ch \in DOMAIN chapters
                THEN UpdateByRegulation(chapters[ch], ByRegulationValues(title, r))
                ELSE ByRegulationValues(title, r))
    /\ UNCHANGED <<acts, regulations, limVars, pipeVars, getVars, normVars, listVars,
                   multiVars, cliVars>>

\* DELETE FROM Acts, with ON DELETE CASCADE on the chapters of the act
DeleteAct(a) ==
    /\ acts' = acts \ {a}
    /\ chapters' = Without({c \in DOMAIN chapters : chapters[c].act_id = a})
    /\ dbOut' = Called("deleteAct", Null, a, FALSE)
    /\ UNCHANGED <<regulations, limVars, pipeVars, getVars, normVars, listVars,
                   multiVars, cliVars>>

\* DELETE FROM Regulations, with ON DELETE CASCADE on its chapters
DeleteRegulation(r) ==
    /\ regulations' = regulations \ {r}
    /\ chapters' = Without({c \in DOMAIN chapters : chapters[c].regulation_id = r})
    /\ dbOut' = Called("deleteRegulation", Null, r, FALSE)
    /\ UNCHANGED <<acts, limVars, pipeVars, getVars, normVars, listVars, multiVars,
                   cliVars>>

DeleteChapter(ch) ==
    /\ chapters' = Without({ch})
    /\ dbOut' = Called("deleteChapter", ch, Null, FALSE)
    /\ UNCHANGED <<acts, regulations, limVars, pipeVars, getVars, normVars, listVars,
                   multiVars, cliVars>>

\* the owner argument of an upsert of a chapter is an id, null / undefined or
\* the empty string
DbNext ==
    \/ \E a \in OwnerIds : AddOrUpdateAct(a)
    \/ \E r \in OwnerIds : AddOrUpdateRegulation(r)
    \/ \E ch \in ChapterIds, a \in OwnerIds \cup {Null, ""} :
           AddOrUpdateChapterByAct(ch, "t", a)
    \/ \E ch \in ChapterIds, r \in OwnerIds \cup {Null, ""} :
           AddOrUpdateChapterByRegulation(ch, "t", r)
    \/ \E a \in OwnerIds : DeleteAct(a)
    \/ \E r \in OwnerIds : DeleteRegulation(r)
    \/ \E ch \in ChapterIds : DeleteChapter(ch)

DbSpec == DbInit /\ [][DbNext]_vars

\* ------------------------------------------------------------ properties
Running == {c \in Callers : cst[c] = "running"}
Suspended == {c \in Callers : cst[c] \in {"waiting", "woken"}}

\* position of caller c in the order of arrival
ArrivalOf(c) == CHOOSE k \in 1..Len(arrived) : arrived[k] = c

\* C1: the number of admitted, unsettled functions is the `active` counter
\* and never exceeds max, under any pattern of calls, completions and failures.
C1_ActiveAtMostMax ==
    /\ lim.active = Cardinality(Running)
    /\ lim.active <= lim.max

\* C1 witness: the gate is full, a caller is suspended behind it, and calls
\* have both succeeded and failed before
C1_Witness ==
    /\ lim.active = lim.max
    /\ lim.queue # <<>>
    /\ \E c \in Callers : cst[c] = "resolved"
    /\ \E c \in Callers : cst[c] = "rejected"

\* C2: the recognition call of page i has begun (or ended) only if the
\* enhancement task of page i completed and resolved the page's signal; a
\* result slot is set only for an enhanced page.
C2_RecognitionAfterEnhancement ==
    \A i \in Pages :
        /\ ocr[i] \in {"reading", "calling", "done", "failed"}
              => (signal[i] /\ enh[i] = "done")
        /\ pageResults[i] # Unset => (signal[i] /\ enh[i] = "done")
        /\ signal[i] => enh[i] = "done"

\* C2 witness: the recognition call of a page is in progress while another
\* page is still being enhanced
C2_Witness ==
    \E i, j \in Pages :
        /\ ocr[i] = "calling"
        /\ enh[i] = "done"
        /\ enh[j] \in {"queued", "running", "written"}

\* the text a successful run must return: the normalized texts of the
\* service's answers, taken by ascending page number
ExpectedResults == [i \in Pages |-> NormalizeExtractedText(docText[i])]
ExpectedText == Trim(AssembleFrom(ExpectedResults, pageCount, includeMarkers, 1))

\* C3: on a successful run the text holds the pages' normalized texts in
\* ascending page order 1..N, whatever the order of completion.
C3_PageOrder ==
    outcome.kind = "returned" => outcome.text = ExpectedText

\* C3 witness: a successful run in which a later page was recognized before
\* an earlier one and the two pages' texts differ
C3_Witness ==
    /\ outcome.kind = "returned"
    /\ \E k \in 1..(Len(doneOrder) - 1) :
          /\ doneOrder[k] > doneOrder[k + 1]
          /\ ExpectedResults[doneOrder[k]] # ExpectedResults[doneOrder[k + 1]]

RaisedErrors ==
    {Err("convert", i) : i \in {k \in Pages : conv[k] = "failed"}}
    \cup {Err("enhance", i) : i \in {k \in Pages : enh[k] = "failed"}}
    \cup {Err("recognize", i) : i \in {k \in Pages : ocr[k] = "failed"}}
    \cup (IF pageCount = 0 THEN {Err("workspace", 0), Err("pagecount", 0)} ELSE {})
    \cup (IF pageCount > 0 /\ pageImages = <<>> /\ \A i \in 1..pageCount : conv[i] = "done"
          THEN {Err("list", 0)} ELSE {})

AnyTaskFailed == \E i \in Pages : "failed" \in {conv[i], enh[i], ocr[i]}

\* C6: a run ends either with an envelope (success = true, all N pages) or
\* with a thrown error, never both and never with neither; when a page's
\* conversion, enhancement or recognition failed there is no envelope and no text.
C6_ResultOrError ==
    /\ outcome.kind \in {"none", "returned", "thrown"}
    /\ outcome.kind = "returned"
          => /\ outcome.success /\ outcome.error = NoError
             /\ outcome.pages = pageCount /\ pageCount >= 1
             /\ \A i \in 1..pageCount :
                   conv[i] = "done" /\ enh[i] = "done" /\ ocr[i] = "done"
                   /\ pageResults[i] # Unset
             /\ ~AnyTaskFailed
    /\ outcome.kind = "thrown"
          => ~outcome.success /\ outcome.text = <<>> /\ outcome.error # NoError
    /\ AnyTaskFailed => outcome.kind # "returned"
    /\ AnyTaskFailed => pc \notin {"converting", "listed", "awaitAll", "assembled"}
    /\ ~(ENABLED Next) => outcome.kind \in {"returned", "thrown"}

\* C6 witness: a run that threw although some page had been recognized
C6_Witness ==
    /\ outcome.kind = "thrown"
    /\ \E i \in Pages : pageResults[i] # Unset

\* C7: when the function run under the limiter throws, the permit is released
\* (active decremented) and the longest-waiting caller is woken, as on
\* success, and the limiter's promise rejects.
C7_ReleaseOnFailure ==
    [][\A c \in Callers :
          (cst[c] = "running" /\ cst'[c] # "running")
            => /\ lim'.active = lim.active - 1
               /\ (c \in threw' <=> cst'[c] = "rejected")
               /\ lim.queue # <<>>
                    => /\ lim'.queue = Tail(lim.queue)
                       /\ lim'.woken = Append(lim.woken, Head(lim.queue))
                       /\ cst'[Head(lim.queue)] = "woken"
               /\ lim.queue = <<>> => lim'.woken = lim.woken]_vars

\* C7 witness: a function failed and a caller that waited was woken and admitted
C7_Witness ==
    /\ \E c \in Callers : cst[c] = "rejected"
    /\ \E d \in Callers :
          cst[d] = "running" /\ \E c \in threw : ArrivalOf(c) < ArrivalOf(d)
    /\ lim.woken # <<>>

\* C8: no caller is admitted while a caller that arrived before it is still
\* suspended at the gate (FIFO admission).
C8_FifoAdmission ==
    [][\A c \in Callers :
          (cst[c] # "running" /\ cst'[c] = "running")
            => \A d \in Suspended \ {c} : ArrivalOf(d)' > ArrivalOf(c)']_vars

\* pages whose recognition task holds a permit
OcrHolders == {j \in Pages : ocr[j] \in {"awaiting", "reading", "calling"}}

\* C9: there is no state of a running session in which page i is enhanced,
\* fewer than the limit of recognition calls are in progress (here: none),
\* and page i's recognition can start only after another page's enhancement.
C9_NoWaitOnOtherPages ==
    \A i \in Pages :
        ~ /\ pc = "awaitAll"
          /\ signal[i]
          /\ ocr[i] = "queued"
          /\ ocrLim.woken = <<>>
          /\ OcrHolders # {}
          /\ \A j \in OcrHolders :
                ocr[j] = "awaiting" /\ ~signal[j] /\ enh[j] # "failed"

\* number of marker lines of a text
RECURSIVE CountMarkers(_)
CountMarkers(s) ==
    IF s = <<>> THEN 0
    ELSE (IF Head(s) = "PAGE" THEN 1 ELSE 0) + CountMarkers(Tail(s))

\* C10: the number of page tasks and result slots equals the page count N,
\* and a successful run returns pages = N and a text made of N segments.
C10_PageTasksEqualCount ==
    /\ pc \in {"awaitAll", "assembled", "returned"}
          => /\ Len(pageImages) = pageCount
             /\ \A i \in Pages :
                   /\ (enh[i] # "none") <=> (i \in 1..pageCount)
                   /\ (ocr[i] # "none") <=> (i \in 1..pageCount)
    /\ outcome.kind = "returned"
          => /\ outcome.pages = pageCount
             /\ {i \in Pages : pageResults[i] # Unset} = 1..pageCount
             /\ outcome.text = Trim(AssembleFrom(pageResults, pageCount, includeMarkers, 1))
             /\ includeMarkers => CountMarkers(outcome.text) = pageCount

\* C10 witness: a successful run of a document of several pages, with markers
C10_Witness ==
    /\ outcome.kind = "returned"
    /\ pageCount >= 2
    /\ includeMarkers

\* no conversion, enhancement or recognition task was ever created or called
NoPageWork ==
    /\ \A i \in Pages : conv[i] = "none" /\ enh[i] = "none" /\ ocr[i] = "none"
    /\ pagesDir = {} /\ enhancedDir = {}
    /\ \A i \in Pages : pageResults[i] = Unset /\ ~signal[i]

\* C11: when the page counter's output is missing, non-numeric or < 1 the
\* pipeline goes to its catch clause with the page-count error, no conversion,
\* enhancement or recognition call is made, and the workspace is gone when the
\* error is thrown.
C11_InvalidCountFailsFast ==
    (counted # <<>> /\ (counted[1].nan \/ counted[1].n < 1))
        => /\ pc \in {"catch", "cleaned", "thrown"}
           /\ caught = Err("pagecount", 0)
           /\ NoPageWork
           /\ outcome.kind # "returned"
           /\ outcome.kind = "thrown"
                 => (outcome.error = Err("pagecount", 0) /\ ~workspace)

\* C11 witness: the counter reported 0 and the error has reached the caller
C11_Witness ==
    /\ counted = <<Num(0)>>
    /\ outcome.kind = "thrown"

\* C12: an enhancement or recognition task exists only when the conversions
\* of all N pages have resolved; once a conversion has failed, no enhancement
\* or recognition task is ever created and the run does not return a result.
C12_RasterizationBarrier ==
    /\ (\E i \in Pages : enh[i] # "none" \/ ocr[i] # "none")
          => /\ pageCount >= 1
             /\ \A i \in 1..pageCount : conv[i] = "done"
             /\ Len(pageImages) = pageCount
    /\ (\E i \in Pages : conv[i] = "failed")
          => /\ \A i \in Pages : enh[i] = "none" /\ ocr[i] = "none"
             /\ enhancedDir = {}
             /\ pc \in {"catch", "cleaned", "thrown"}
             /\ caught.stage = "convert"

\* C12 witness: one page was converted, the conversion of another failed, and
\* the run has thrown
C12_Witness ==
    /\ \E i, j \in Pages : conv[i] = "failed" /\ conv[j] = "done"
    /\ outcome.kind = "thrown"

\* C13: when the call of a stage failed for page k, the message of the error
\* the caller receives names that stage and page k.
C13_ErrorNamesStageAndPage ==
    (outcome.kind = "thrown" /\ outcome.error.page > 0)
        => outcome.message = Names(outcome.error.stage, outcome.error.page)

\* C14: a page whose recognition answered with empty or absent text holds
\* the empty string in its result slot and raises no error; when every page
\* task has resolved no error was caught, and a run that returns reports
\* success with pages = N.
C14_EmptyTextIsNoError ==
    /\ \A i \in Pages :
          (ocr[i] = "done" /\ docText[i] \in {<<>>, NoText})
              => /\ pageResults[i] = <<>>
                 /\ caught # Err("recognize", i)
    /\ (pageCount >= 1 /\ \A i \in 1..pageCount : enh[i] = "done" /\ ocr[i] = "done")
          => /\ caught = NoError
             /\ pc \in {"awaitAll", "assembled", "returned"}
    /\ outcome.kind = "returned"
          => (outcome.success /\ outcome.pages = pageCount /\ pageCount >= 1)

\* C14 witness: a run of several pages has returned; the service answered
\* one page without text, another with empty text and a third with text
C14_Witness ==
    /\ outcome.kind = "returned"
    /\ \E i, j, k \in 1..pageCount :
          docText[i] = NoText /\ docText[j] = <<>> /\ docText[k] = <<"b">>

\* the delimiter "\n\n===== PAGE k =====\n\n"
Delimiter(k) ==
    <<LF, LF, "=====", SP, "PAGE", SP, ToString(k), SP, "=====", LF, LF>>

\* the delimiter and text of pages 1..n, concatenated in page order
RECURSIVE MarkedPages(_, _)
MarkedPages(texts, n) ==
    IF n = 0 THEN <<>> ELSE MarkedPages(texts, n - 1) \o Delimiter(n) \o texts[n]

\* C15: with page markers the returned text is the trim of the concatenation,
\* for k = 1..N, of the delimiter of page k and page k's normalized text; one
\* page with text "b" gives "===== PAGE 1 =====\n\nb".
C15_MarkedText ==
    (outcome.kind = "returned" /\ includeMarkers)
        => /\ outcome.text = Trim(MarkedPages(pageResults, pageCount))
           /\ (pageCount = 1 /\ pageResults[1] = <<"b">>)
                 => outcome.text =
                       <<"=====", SP, "PAGE", SP, "1", SP, "=====", LF, LF, "b">>

\* C15 witness: a run with markers returned two or more pages, the first
\* page empty and a later page with text
C15_Witness ==
    /\ outcome.kind = "returned" /\ includeMarkers
    /\ pageCount >= 2
    /\ pageResults[1] = <<>>
    /\ pageResults[2] = <<"b">>

\* the texts of pages 1..n with "\n\n" between consecutive pages
RECURSIVE JoinedPages(_, _)
JoinedPages(texts, n) ==
    IF n = 0 THEN <<>>
    ELSE IF n = 1 THEN texts[1]
    ELSE JoinedPages(texts, n - 1) \o <<LF, LF>> \o texts[n]

\* C16: without page markers the returned text is the trim of the pages'
\* normalized texts joined by "\n\n" in page order; the texts "a", "", "b"
\* give "a\n\n\n\nb".
C16_JoinedText ==
    (outcome.kind = "returned" /\ ~includeMarkers)
        => /\ outcome.text = Trim(JoinedPages(pageResults, pageCount))
           /\ (pageCount = 3 /\ pageResults = <<<<"a">>, <<>>, <<"b">>>>)
                 => outcome.text = <<"a", LF, LF, LF, LF, "b">>

\* C16 witness: a run without markers returned the pages "a", "", "b"
C16_Witness ==
    /\ outcome.kind = "returned" /\ ~includeMarkers
    /\ pageCount = 3
    /\ pageResults = <<<<"a">>, <<>>, <<"b">>>>
    /\ outcome.text = <<"a", LF, LF, LF, LF, "b">>

\* the bytes a stream delivers, in order
RECURSIVE BytesOf(_)
BytesOf(stream) ==
    IF stream = <<>> THEN <<>>
    ELSE BytesOf(SubSeq(stream, 1, Len(stream) - 1)) \o stream[Len(stream)]

\* C17: getContent called with a name whose extension is .txt in any letter
\* case creates no workspace and starts no page count, conversion, enhancement
\* or recognition, and what it returns is exactly the bytes of the stream.
C17_TextPassThrough ==
    fileName \in {<<"a", ".", "t", "x", "t">>, <<"a", ".", "T", "x", "T">>}
        => /\ gpc \in {"called", "text", "returned"}
           /\ pc = "idle"
           /\ ~workspace
           /\ counted = <<>> /\ pageCount = 0
           /\ NoPageWork
           /\ outcome = NoOutcome
           /\ gpc = "returned" => gresult = BytesOf(input)

\* C17 witness: a stream of two different chunks was returned for "a.TxT"
C17_Witness ==
    /\ fileName = <<"a", ".", "T", "x", "T">>
    /\ gpc = "returned"
    /\ input = << <<97, 13>>, <<10>> >>
    /\ gresult = <<97, 13, 10>>

\* C18: while the recognition client has no usable credentials no session
\* starts: no workspace exists and no page count, conversion, enhancement or
\* recognition has been made.
C18_NoSessionWithoutCredentials ==
    client # "ok"
        => /\ ~workspace
           /\ counted = <<>>
           /\ NoPageWork
           /\ pc \in {"start", "catch", "cleaned", "thrown"}

\* how far a page task has got: not created, at the gate, then one rank per
\* call it makes, then settled
TaskRank(st) ==
    CASE st = "none" -> 0
      [] st \in {"queued", "woken"} -> 1
      [] st \in {"running", "awaiting"} -> 2
      [] st \in {"written", "reading"} -> 3
      [] st = "calling" -> 4
      [] st \in {"done", "failed"} -> 5

\* a step moves a task forward only (at the gate it may be woken and wait again)
MovesForward(old, new) ==
    \/ new = old
    \/ TaskRank(new) > TaskRank(old)
    \/ (old \in {"queued", "woken"} /\ new \in {"queued", "woken"})

\* C19: no call is made twice in a session. A page task only moves forward,
\* so that its conversion, its enhancement and its recognition are each
\* invoked at most once, also after a failure of this or of another task; an
\* enhanced image exists only once its page's enhancement task wrote it; on a
\* successful run every page's three tasks have run to their end.
C19_NoRetry ==
    /\ [][\A i \in Pages :
             /\ MovesForward(conv[i], conv'[i])
             /\ MovesForward(enh[i], enh'[i])
             /\ MovesForward(ocr[i], ocr'[i])]_vars
    /\ [](\A i \in Pages :
             /\ i \in enhancedDir => enh[i] \in {"written", "done", "failed"}
             /\ ocr[i] \in {"reading", "calling", "done"} => enh[i] = "done")
    /\ [](outcome.kind = "returned"
             => \A i \in 1..pageCount :
                   conv[i] = "done" /\ enh[i] = "done" /\ ocr[i] = "done")

\* C19 witness: the run has thrown the error of a failed recognition and
\* another page's tasks went on to their end afterwards
C19_Witness ==
    /\ outcome.kind = "thrown"
    /\ \E i, j \in Pages :
          /\ outcome.error = Err("recognize", i)
          /\ ocr[i] = "failed"
          /\ j # i /\ doneOrder # <<>> /\ doneOrder[Len(doneOrder)] = j
          /\ ocr[j] = "done"

\* C20: the text _normalizeExtractedText returns contains no "\r\n": every
\* line break in it is a bare "\n".
C20_NoCrLfInOutput ==
    nout # Unset
        => \A k \in 1..(Len(nout) - 1) : ~(nout[k] = CR /\ nout[k + 1] = LF)

\* positions of the letters of a text, and the position of its k-th letter
LetterAt(s) == {k \in 1..Len(s) : s[k] = "a"}
NthLetter(s, n) ==
    CHOOSE k \in LetterAt(s) : Cardinality({m \in LetterAt(s) : m <= k}) = n

\* the letters at i < j of s are separated by three or more blank lines:
\* only spaces, tabs and newlines lie between them, four newlines at least
BlankLinesBetween(s, i, j) ==
    /\ i < j /\ s[i] = "a" /\ s[j] = "a"
    /\ \A m \in (i + 1)..(j - 1) : s[m] \in {SP, TAB, LF}
    /\ Cardinality({m \in (i + 1)..(j - 1) : s[m] = LF}) >= 4

\* the indentation of the line of the letter at j: what follows the last newline
IndentBefore(s, j) ==
    LET nl == CHOOSE m \in 1..(j - 1) : s[m] = LF /\ \A q \in (m + 1)..(j - 1) : s[q] # LF
    IN  SubSeq(s, nl + 1, j - 1)

\* C21: in the text _normalizeExtractedText returns, three or more blank
\* lines of the input (empty or holding only spaces and tabs) have become
\* exactly one blank line; there are never three newlines in a row, never a
\* space or tab just before a newline, and no white space at either end.
C21_BlankLinesCollapsed ==
    nout # Unset
        => /\ \A k \in 1..(Len(nout) - 2) :
                 ~(nout[k] = LF /\ nout[k + 1] = LF /\ nout[k + 2] = LF)
           /\ \A k \in 1..(Len(nout) - 1) :
                 ~(nout[k] \in {SP, TAB} /\ nout[k + 1] = LF)
           /\ nout # <<>> => (nout[1] \notin {SP, TAB, LF, CR}
                              /\ nout[Len(nout)] \notin {SP, TAB, LF, CR})
           /\ nin # NoText =>
                 \A i, j \in 1..Len(nin) :
                    BlankLinesBetween(nin, i, j)
                       => LET n == Cardinality({m \in LetterAt(nin) : m <= i})
                              p == NthLetter(nout, n)
                              q == NthLetter(nout, n + 1)
                          IN  /\ Cardinality(LetterAt(nout)) = Cardinality(LetterAt(nin))
                              /\ SubSeq(nout, p + 1, q - 1)
                                    = <<LF, LF>> \o IndentBefore(nin, j)

\* C21 witness: three blank lines, one of them holding a space, were
\* returned as one blank line
C21_Witness ==
    /\ nin = <<"a", LF, SP, LF, LF, LF, "a">>
    /\ nout = <<"a", LF, LF, "a">>

\* C22: once the session has errored and its workspace has been removed, no
\* task that was still waiting at its gate is admitted: no further
\* conversion, enhancement or recognition is started.
C22_NoStartAfterError ==
    [][(pc \in {"cleaned", "thrown"} /\ ~workspace)
          => \A i \in Pages :
                /\ conv[i] \in {"queued", "woken"} => conv'[i] \in {"queued", "woken"}
                /\ enh[i] \in {"queued", "woken"} => enh'[i] \in {"queued", "woken"}
                /\ ocr[i] \in {"queued", "woken"} => ocr'[i] \in {"queued", "woken"}]_vars

\* C23: a slot of pageResults changes only from unset to a text, in a step in
\* which the recognition task of that very page completes, and no other slot
\* changes in that step.
C23_SlotWrittenOnceByOwner ==
    [][\A i \in Pages :
          pageResults'[i] # pageResults[i]
             => /\ pageResults[i] = Unset
                /\ pageResults'[i] # Unset
                /\ ocr[i] = "calling" /\ ocr'[i] = "done"
                /\ \A j \in Pages \ {i} : pageResults'[j] = pageResults[j]]_vars

\* C23 witness: the slots of two pages were written in descending page order
C23_Witness ==
    /\ Len(doneOrder) >= 2
    /\ doneOrder[1] > doneOrder[2]
    /\ pageResults[doneOrder[1]] = <<"b">>
    /\ pageResults[doneOrder[2]] = <<"a">>

\* every enhancement and recognition task of the document has resolved and
\* every slot of pageResults holds a text
AllPagesRecognized ==
    /\ pageCount >= 1 /\ Len(pageImages) = pageCount
    /\ \A i \in 1..pageCount :
          enh[i] = "done" /\ ocr[i] = "done" /\ pageResults[i] # Unset

\* C24: the result envelope is built once, in a step taken when all N
\* enhancement and all N recognition tasks have resolved and every slot 1..N
\* holds a text; afterwards it is only handed to the caller.
C24_EnvelopeOnceAfterAllTasks ==
    /\ [][outcome' # outcome
             => \/ /\ outcome = NoOutcome /\ outcome'.success /\ outcome'.kind = "none"
                   /\ pc = "awaitAll" /\ AllPagesRecognized
                \/ /\ outcome.success /\ outcome.kind = "none"
                   /\ outcome' = [outcome EXCEPT !.kind = "returned"]
                \/ /\ outcome = NoOutcome /\ outcome'.kind = "thrown"]_vars
    /\ [](outcome.success => (AllPagesRecognized /\ outcome.pages = pageCount))

\* C24 witness: the envelope of a document of several pages has been built
\* and is not yet returned
C24_Witness ==
    /\ pc = "assembled"
    /\ outcome.success /\ outcome.kind = "none"
    /\ pageCount >= 2

\* C25: the signal of page i is resolved only in the step in which the
\* enhancement task of page i, having written the enhanced image and checked
\* that it is readable, completes; when the enhancement of page i failed its
\* signal stays unresolved and the session has gone to its catch clause.
C25_SignalAfterVerifiedWrite ==
    /\ [][\A i \in Pages :
             signal'[i] # signal[i]
                => /\ ~signal[i]
                   /\ enh[i] = "written" /\ i \in enhancedDir
                   /\ enh'[i] = "done"]_vars
    /\ [](\A i \in Pages :
             /\ signal[i] => enh[i] = "done"
             /\ enh[i] = "failed"
                   => /\ ~signal[i]
                      /\ pc \in {"catch", "cleaned", "thrown"}
                      /\ caught # NoError)

\* C25 witness: the enhancement of a page failed after its image was
\* written, its signal is unresolved and its recognition task still waits,
\* while another page's signal was resolved; the session has thrown
C25_Witness ==
    /\ outcome.kind = "thrown"
    /\ \E i, j \in Pages :
          /\ enh[i] = "failed" /\ i \in Pages /\ ~signal[i] /\ ocr[i] = "awaiting"
          /\ outcome.error = Err("enhance", i)
          /\ signal[j] /\ enh[j] = "done"

\* C26: the list returned for the page files of N converted pages has N
\* paths and its i-th path is the image of page i, for every order in which
\* the directory lists them: page 10 follows page 9.
C26_ListInPageOrder ==
    files # Unset
        => /\ Len(files) = Len(listing)
           /\ \A i \in 1..Len(files) :
                 files[i] = <<"p", "a", "g", "e", "s", "/", "p", "a", "g", "e", "-">>
                            \o Decimal(i) \o <<".", "p", "n", "g">>

\* C26 witness: eleven files, listed with page 10 before page 2, were returned
C26_Witness ==
    /\ Len(listing) = 11
    /\ \E k \in 1..10 :
          /\ listing[k] = <<"p", "a", "g", "e", "-", "1", "0", ".", "p", "n", "g">>
          /\ listing[k + 1] = <<"p", "a", "g", "e", "-", "9", ".", "p", "n", "g">>
    /\ files # Unset
    /\ files[10] = <<"p", "a", "g", "e", "s", "/", "p", "a", "g", "e", "-", "1", "0",
                     ".", "p", "n", "g">>

\* C27: there is no barrier between enhancement and recognition. A
\* recognition task that holds a permit and whose own page's signal is
\* resolved can start its call at once, whatever the state of the other
\* pages' enhancements (the witness is a state in which it has done so).
C27_NoPhaseBarrier ==
    \A i \in Pages :
        (ocr[i] = "awaiting" /\ signal[i]) => ENABLED OcrStart(i)

\* C27 witness: the recognition of one page is finished and that of a second
\* is in progress while the enhancement of a third page has not begun
C27_Witness ==
    /\ pc = "awaitAll" /\ pageCount >= 3
    /\ \E i, j, k \in 1..pageCount :
          /\ ocr[i] = "done"
          /\ ocr[j] = "calling"
          /\ enh[k] \in {"queued", "woken"}

\* C28: when every external call succeeds the pipeline eventually returns its
\* result, for every page count and every choice of the three limits: the
\* recognition tasks that hold permits while they wait for their signals do
\* not block the enhancements they wait for.
C28_EventuallyReturns ==
    <>(outcome.kind = "returned" /\ outcome.success /\ outcome.pages = pageCount)

\* C28 witness: a run has returned in which more pages than recognition
\* permits existed and fewer enhancement permits than recognition permits,
\* so that recognition tasks held permits for pages not yet enhanced
C28_Witness ==
    /\ outcome.kind = "returned"
    /\ pageCount > ocrLim.max
    /\ ocrLim.max > enhLim.max

\* C29: when every admitted function settles, every caller suspended at the
\* gate is eventually admitted, also one that was woken, found the gate full
\* and suspended again.
C29_SuspendedEventuallyAdmitted ==
    \A c \in Callers :
        (cst[c] \in {"waiting", "woken"}) ~> (cst[c] = "running")

\* C30: no recognition permit is held forever: in a state in which no step of
\* the session is possible any more, no recognition task holds a permit or
\* is suspended.
C30_PermitsReleased ==
    ~(ENABLED Next)
        => /\ ocrLim.active = 0
           /\ \A i \in Pages : ocr[i] \notin {"awaiting", "queued", "woken"}

\* C32: _normalizeExtractedText is idempotent: normalizing a text it returned
\* gives that text back unchanged, carriage returns in the input included.
C32_Idempotent ==
    nout # Unset => NormalizeExtractedText(nout) = nout

\* the recognition calls that are in flight, over all sessions
CallsInFlight ==
    {c \in (DOMAIN ocrTasks) \X Pages : ocrTasks[c[1]][c[2]] = "calling"}

\* C31: with several getContent calls running at once, the number of
\* recognition calls in flight over all sessions never exceeds the configured
\* recognition limit.
C31_TotalInFlightBounded ==
    Cardinality(CallsInFlight) <= googleOcrLimit

\* the console lines with message msg
Logged(msg) == {l \in log : l.msg = msg}

\* the failed attempts on entry k: getContent threw, or the write failed
FailedAttempts(k) ==
    {l \in log : l.entry = k /\ l.msg \in {"failed:ocr", "failed:write"}}

\* C33 as stated: over all runs of the tool on the same input, getContent is
\* invoked at most once for a PDF.
C33_OcrAtMostOnce ==
    \A k \in DOMAIN ocrCalls : ocrCalls[k] <= 1

\* C33, amended: while the .txt beside a PDF exists, no step of the tool
\* invokes getContent for that PDF or changes the .txt, in this run and in
\* every later one; getContent is invoked again for a PDF only after an
\* attempt that failed (each invocation beyond the first follows a failure).
C33_SkipWhenTxtExists ==
    /\ [](\A k \in DOMAIN ocrCalls :
             ocrCalls[k] <= 1 + Cardinality(FailedAttempts(k)))
    /\ [][\A k \in DOMAIN txt :
             txt[k] # NoFile => txt'[k] = txt[k] /\ ocrCalls'[k] = ocrCalls[k]]_vars

\* C33 witness: a PDF was recognized and saved in the first run and skipped
\* in the second, with one invocation of getContent in all
C33_Witness ==
    \E k \in DOMAIN txt :
        /\ [run |-> 1, entry |-> k, msg |-> "saved"] \in log
        /\ [run |-> 2, entry |-> k, msg |-> "skip"] \in log
        /\ ocrCalls[k] = 1
        /\ txt[k] = "text"

\* every PDF of the directory was looked at in the current run
AllEntriesReached ==
    \A k \in DOMAIN dirents :
        dirents[k] = "pdf"
            => \E l \in log : l.run = runNo /\ l.entry = k /\ l.msg \in {"skip", "start"}

\* C34: a .txt is written only by the step that follows the return of
\* getContent; when getContent throws, no .txt exists for that PDF and none
\* is created, and in directory mode the loop goes on with the next entry; a
\* PDF without .txt is not skipped; a directory run that ends normally has
\* looked at every subdirectory with a PDF, whatever failed on the way.
C34_NoTxtOnFailure ==
    /\ []((cpc = "exit0" /\ argMode = "dir") => AllEntriesReached)
    /\ [][/\ \A k \in DOMAIN txt : txt'[k] # txt[k] => cpc = "write" /\ k = cur
          /\ (cpc = "ocr" /\ cpc' # "write")
                => /\ txt' = txt
                   /\ txt[cur] = NoFile
                   /\ argMode = "dir" => (cpc' = "loop" /\ cur' = cur)
          /\ (cpc = "single" /\ txt[cur] = NoFile)
                => (cpc' = "ocr" /\ ocrCalls'[cur] = ocrCalls[cur] + 1)]_vars

\* C34 witness: in directory mode the recognition of one PDF failed in the
\* first run, a later subdirectory was processed in that run all the same,
\* and the second run called getContent for the failed PDF again
C34_Witness ==
    /\ argMode = "dir"
    /\ \E k, j \in DOMAIN txt :
        /\ k < j
        /\ [run |-> 1, entry |-> k, msg |-> "failed:ocr"] \in log
        /\ [run |-> 1, entry |-> j, msg |-> "saved"] \in log
        /\ [run |-> 2, entry |-> k, msg |-> "start"] \in log
        /\ ocrCalls[k] = 2

\* C35: every stored chapter has exactly one owner, exactly one of act_id
\* and regulation_id being non-null; and an upsert of a chapter under an
\* existing act (regulation) succeeds whatever owner the chapter had, and
\* leaves it with that act (regulation) as its only owner.
C35_ExactlyOneOwner ==
    /\ \A ch \in DOMAIN chapters :
           (chapters[ch].act_id = Null) # (chapters[ch].regulation_id = Null)
    /\ (dbOut.fn = "addOrUpdateChapterByAct" /\ dbOut.owner \in acts)
           => /\ ~dbOut.rejected
              /\ dbOut.chapter_id \in DOMAIN chapters
              /\ chapters[dbOut.chapter_id].act_id = dbOut.owner
              /\ chapters[dbOut.chapter_id].regulation_id = Null
    /\ (dbOut.fn = "addOrUpdateChapterByRegulation" /\ dbOut.owner \in regulations)
           => /\ ~dbOut.rejected
              /\ dbOut.chapter_id \in DOMAIN chapters
              /\ chapters[dbOut.chapter_id].regulation_id = dbOut.owner
              /\ chapters[dbOut.chapter_id].act_id = Null

\* C35 witness: a chapter owned by an act was upserted under a regulation and
\* is now owned by the regulation alone
C35_Witness ==
    /\ dbOut.fn = "addOrUpdateChapterByRegulation"
    /\ dbOut.met = "act"
    /\ ~dbOut.rejected
    /\ chapters[dbOut.chapter_id].regulation_id = dbOut.owner
    /\ chapters[dbOut.chapter_id].act_id = Null

====
